---- MODULE Spec2Model ----
(***************************************************************************)
(* State layer of the ImmersiveAI engine: the SQLite store behind          *)
(* DatabaseManager, the StateManager repository with its cache and         *)
(* snapshots, the StateValidator, the StateExtractor and the               *)
(* StateIntegrator pipeline (processMessage).                              *)
(*                                                                         *)
(* Rows are records; a table is the sequence of its rows in rowid order.   *)
(* A text is modelled by the phrases the extractor's patterns find in it.  *)
(***************************************************************************)
EXTENDS Integers, Sequences, FiniteSets, TLC

VARIABLES
  db,       \* the seven tables of schema.sql
  cache,    \* StateManager.cache: one insertion-ordered Map per bucket
  now,      \* Date.now()
  uuid,     \* number of randomUUID() values handed out so far
  options,  \* StateIntegrator.options: autoApply, strictMode
  calls,    \* the processMessage calls in flight
  ops,      \* operations started so far
  ret,      \* what the last operation returned (or threw)
  taken,    \* history: the five state tables as they were when each snapshot was taken
  rules     \* StateValidator.rules: the registered rules, in Map order

vars == <<db, cache, now, uuid, options, calls, ops, ret, taken, rules>>

----------------------------------------------------------------------------
(* Bounds of the model *)

MaxTime == 2      \* the clock stops advancing here
MaxOps == 3       \* repository operations in one behaviour of SpecRepo
MaxMsgs == 1      \* processMessage calls in one behaviour of SpecMsg
cacheTTL == 1     \* options.cacheTTL of the StateManager, in clock ticks
cacheSize == 2    \* options.cacheSize of the StateManager

DayMs == 86400000

(* Values the inputs are drawn from *)

CharIds == {"c1", "c2"}
NoSuchChar == "c9"
AffInit == {0, 50, 100}
AffVals == {-10, 0, 30, 50, 70, 71, 100, 101, 150}

NULL == "NULL"
NoRow == [null |-> TRUE]

\* A TEXT column holding a JSON list: NULL, or JSON.stringify of the list
NullJson == [isNull |-> TRUE, list |-> <<>>]
JSONstringify(list) == [isNull |-> FALSE, list |-> list]
JSONparse(text) == text.list

UUIDs == <<"u1", "u2", "u3", "u4", "u5", "u6", "u7", "u8", "u9", "u10",
           "u11", "u12", "u13", "u14", "u15", "u16">>

----------------------------------------------------------------------------
(* DatabaseManager over the schema *)

Tables == {"characters", "timeline", "locations", "inventory", "memories",
           "state_snapshots", "validation_logs"}

StateTables == <<"characters", "timeline", "locations", "inventory", "memories">>

EmptyDb == [t \in Tables |-> <<>>]

EmptyCache == [characters |-> <<>>, locations |-> <<>>, inventory |-> <<>>]

Ids(rows) == {rows[i].id : i \in 1..Len(rows)}

RowSet(rows) == {rows[i] : i \in 1..Len(rows)}

\* db.get(table, {id}): the row or null
GetById(d, table, id) ==
  LET hit == SelectSeq(d[table], LAMBDA r : r.id = id)
  IN IF Len(hit) = 0 THEN NoRow ELSE hit[1]

\* db.get('locations', {name})
GetLocationByName(d, name) ==
  LET hit == SelectSeq(d.locations, LAMBDA r : r.name = name)
  IN IF Len(hit) = 0 THEN NoRow ELSE hit[1]

\* The constraints without the FOREIGN KEY of inventory and memories
RowConstraintsOk_NoForeignKeys(d, table, r) ==
  CASE table = "characters" -> r.affection >= 0 /\ r.affection <= 100
    [] table = "timeline" -> r.importance >= 1 /\ r.importance <= 5
    [] table = "inventory" -> r.item_name # NULL /\ r.quantity >= 0
    [] table = "memories" -> r.importance >= 1 /\ r.importance <= 5
    [] OTHER -> TRUE

\* The constraints without the CHECK on characters.affection
RowConstraintsOk_NoAffectionCheck(d, table, r) ==
  CASE table = "timeline" -> r.importance >= 1 /\ r.importance <= 5
    [] table = "locations" ->
         r.parent_location = NULL \/ r.parent_location \in Ids(d.locations)
    [] table = "inventory" ->
         /\ r.character_id \in Ids(d.characters)
         /\ r.item_name # NULL
         /\ r.quantity >= 0
    [] table = "memories" ->
         /\ r.character_id \in Ids(d.characters)
         /\ r.importance >= 1 /\ r.importance <= 5
    [] OTHER -> TRUE

\* The CHECK, NOT NULL and FOREIGN KEY constraints a row of the table must meet
RowConstraintsOk(d, table, r) ==
  CASE table = "characters" -> r.affection >= 0 /\ r.affection <= 100
    [] table = "timeline" -> r.importance >= 1 /\ r.importance <= 5
    [] table = "locations" ->
         r.parent_location = NULL \/ r.parent_location \in Ids(d.locations)
    [] table = "inventory" ->
         /\ r.character_id \in Ids(d.characters)
         /\ r.item_name # NULL
         /\ r.quantity >= 0
    [] table = "memories" ->
         /\ r.character_id \in Ids(d.characters)
         /\ r.importance >= 1 /\ r.importance <= 5
    [] OTHER -> TRUE

\* PRIMARY KEY and UNIQUE
KeysOk(d, table, r) ==
  /\ r.id \notin Ids(d[table])
  /\ table = "locations" =>
       \A i \in 1..Len(d.locations) : d.locations[i].name # r.name

\* insert(): created_at and updated_at are set to now, whatever data carries.
\* Every caller in the state layer supplies data.id.
Insert(d, table, data, t) ==
  LET record == [created_at |-> t, updated_at |-> t] @@ data
  IN IF KeysOk(d, table, record) /\ RowConstraintsOk(d, table, record)
     THEN [ok |-> TRUE, db |-> [d EXCEPT ![table] = Append(@, record)], id |-> record.id]
     ELSE [ok |-> FALSE, db |-> d, id |-> record.id]

\* update(table, {id}, data): SET data's columns and updated_at = now
UpdateById(d, table, id, data, t) ==
  LET updateData == [updated_at |-> t] @@ data
      rows == [i \in 1..Len(d[table]) |->
                 IF d[table][i].id = id THEN updateData @@ d[table][i]
                 ELSE d[table][i]]
      hit == {i \in 1..Len(rows) : rows[i].id = id}
  IN IF \A i \in hit : RowConstraintsOk(d, table, rows[i])
     THEN [ok |-> TRUE, db |-> [d EXCEPT ![table] = rows], changes |-> Cardinality(hit)]
     ELSE [ok |-> FALSE, db |-> d, changes |-> 0]

\* A store whose foreign keys do not cascade
Cascade_None(d) == d

\* ON DELETE CASCADE from characters to inventory and memories
Cascade(d) ==
  [d EXCEPT !.inventory = SelectSeq(@, LAMBDA r : r.character_id \in Ids(d.characters)),
            !.memories = SelectSeq(@, LAMBDA r : r.character_id \in Ids(d.characters))]

\* delete(table, {id})
DeleteById(d, table, id) ==
  LET left == [d EXCEPT ![table] = SelectSeq(@, LAMBDA r : r.id # id)]
  IN [ok |-> TRUE, db |-> Cascade(left),
      changes |-> Len(d[table]) - Len(left[table])]

\* raw('DELETE FROM table')
DeleteAll(d, table) == Cascade([d EXCEPT ![table] = <<>>])

----------------------------------------------------------------------------
(* StateValidator *)

ERROR == "error"
WARNING == "warning"
INFO == "info"

Entry(field, severity) == [field |-> field, severity |-> severity]

validEmotions == <<"neutral", "happy", "sad", "angry", "excited",
                   "scared", "confused", "calm", "anxious", "loving">>

Emotions == {validEmotions[i] : i \in 1..Len(validEmotions)}

invalidTransitions ==
  {<<"happy", "sad">>, <<"happy", "angry">>, <<"happy", "scared">>,
   <<"sad", "happy">>, <<"sad", "excited">>,
   <<"angry", "happy">>, <<"angry", "loving">>,
   <<"calm", "angry">>, <<"calm", "anxious">>}

Abs(n) == IF n < 0 THEN -n ELSE n

_buildResult(passed, errors, warnings) ==
  [passed |-> passed,
   errors |-> SelectSeq(errors, LAMBDA e : e.severity = ERROR),
   warnings |-> warnings \o SelectSeq(errors, LAMBDA e : e.severity = WARNING),
   info |-> SelectSeq(errors, LAMBDA e : e.severity = INFO)]

_validateAffection(currentValue, newValue) ==
  (IF newValue < 0 \/ newValue > 100
   THEN <<Entry("affection", ERROR)>> ELSE <<>>)
  \o
  (IF Abs(newValue - currentValue) > 20
   THEN <<Entry("affection", WARNING)>> ELSE <<>>)

_validateEmotion(currentEmotion, newEmotion) ==
  (IF newEmotion \notin Emotions
   THEN <<Entry("emotion", ERROR)>> ELSE <<>>)
  \o
  (IF currentEmotion # NULL /\ <<currentEmotion, newEmotion>> \in invalidTransitions
   THEN <<Entry("emotion", WARNING)>> ELSE <<>>)

\* connected_to lists the ids of the connected locations
_validateLocationChange(d, currentLocation, newLocation) ==
  IF currentLocation = NULL \/ newLocation = NULL THEN <<>>
  ELSE IF GetById(d, "locations", newLocation) = NoRow
  THEN <<Entry("current_location", ERROR)>>
  ELSE LET currentLocationData == GetById(d, "locations", currentLocation)
       IN IF /\ currentLocationData # NoRow
             /\ currentLocationData.connected_to # NullJson
             /\ LET connectedLocations == JSONparse(currentLocationData.connected_to)
                IN \A i \in 1..Len(connectedLocations) :
                     connectedLocations[i] # newLocation
             /\ currentLocation # newLocation
          THEN <<Entry("current_location", WARNING)>>
          ELSE <<>>

\* updates is a record holding the fields the caller set
validateCharacterUpdate(d, characterId, updates) ==
  LET currentState == GetById(d, "characters", characterId)
  IN IF currentState = NoRow
     THEN _buildResult(FALSE, <<Entry("id", ERROR)>>, <<>>)
     ELSE LET errors ==
                (IF "affection" \in DOMAIN updates
                 THEN _validateAffection(currentState.affection, updates.affection)
                 ELSE <<>>)
                \o
                (IF "emotion" \in DOMAIN updates
                 THEN _validateEmotion(currentState.emotion, updates.emotion)
                 ELSE <<>>)
                \o
                (IF "current_location" \in DOMAIN updates
                 THEN _validateLocationChange(d, currentState.current_location,
                                              updates.current_location)
                 ELSE <<>>)
          IN _buildResult(Len(errors) = 0, errors, <<>>)

\* event carries event_type, description, timestamp, importance, participants
\* _validateTimestamp reporting a timestamp far ahead as an ERROR
_validateTimestamp_FutureIsError(timestamp, t) ==
  (IF timestamp < 0 THEN <<Entry("timestamp", ERROR)>> ELSE <<>>)
  \o
  (IF timestamp > t + DayMs THEN <<Entry("timestamp", ERROR)>> ELSE <<>>)

_validateTimestamp(timestamp, t) ==
  (IF timestamp < 0 THEN <<Entry("timestamp", ERROR)>> ELSE <<>>)
  \o
  (IF timestamp > t + DayMs THEN <<Entry("timestamp", WARNING)>> ELSE <<>>)

_validateParticipants(participants) ==
  IF Len(participants) > 10 THEN <<Entry("participants", WARNING)>> ELSE <<>>

validateTimelineEvent(event, t) ==
  LET errors ==
        (IF event.event_type = NULL THEN <<Entry("event_type", ERROR)>> ELSE <<>>)
        \o
        (IF event.description = NULL THEN <<Entry("description", ERROR)>> ELSE <<>>)
        \o
        (IF "timestamp" \in DOMAIN event
         THEN _validateTimestamp(event.timestamp, t) ELSE <<>>)
        \o
        (IF "importance" \in DOMAIN event /\ (event.importance < 1 \/ event.importance > 5)
         THEN <<Entry("importance", ERROR)>> ELSE <<>>)
        \o
        (IF "participants" \in DOMAIN event
         THEN _validateParticipants(event.participants) ELSE <<>>)
  IN _buildResult(Len(errors) = 0, errors, <<>>)

slotTypes == {"weapon", "armor", "accessory"}

\* _validateEquipmentConflict looking at the equipped items of every character
_validateEquipmentConflict_AnyCharacter(d, characterId, itemType, currentItemId) ==
  IF itemType \in slotTypes
  THEN LET equippedItems ==
             SelectSeq(d.inventory,
                       LAMBDA r : r.item_type = itemType /\ r.equipped = 1)
           conflictingItems == SelectSeq(equippedItems, LAMBDA r : r.id # currentItemId)
       IN IF Len(conflictingItems) > 0
          THEN <<Entry("equipped", WARNING)>> ELSE <<>>
  ELSE <<>>

_validateEquipmentConflict(d, characterId, itemType, currentItemId) ==
  IF itemType \in slotTypes
  THEN LET equippedItems ==
             SelectSeq(d.inventory,
                       LAMBDA r : /\ r.character_id = characterId
                                  /\ r.item_type = itemType
                                  /\ r.equipped = 1)
           conflictingItems == SelectSeq(equippedItems, LAMBDA r : r.id # currentItemId)
       IN IF Len(conflictingItems) > 0
          THEN <<Entry("equipped", WARNING)>> ELSE <<>>
  ELSE <<>>

\* item holds the fields the caller set, among item_name, quantity, item_type,
\* equipped and id
validateInventoryItem(d, characterId, item) ==
  LET errors ==
        (IF "item_name" \notin DOMAIN item \/ item.item_name = NULL
         THEN <<Entry("item_name", ERROR)>> ELSE <<>>)
        \o
        (IF "quantity" \in DOMAIN item /\ item.quantity < 0
         THEN <<Entry("quantity", ERROR)>> ELSE <<>>)
        \o
        (IF "quantity" \in DOMAIN item /\ item.quantity > 999
         THEN <<Entry("quantity", WARNING)>> ELSE <<>>)
        \o
        (IF /\ "equipped" \in DOMAIN item /\ item.equipped
            /\ "item_type" \in DOMAIN item /\ item.item_type # NULL
         THEN _validateEquipmentConflict(d, characterId, item.item_type,
                IF "id" \in DOMAIN item THEN item.id ELSE NULL)
         ELSE <<>>)
  IN _buildResult(Len(errors) = 0, errors, <<>>)

\* A validator that would log each verdict the way logValidation does
validatorWrites_Logs(d, validationType, passed, t) ==
  Insert(d, "validation_logs",
         [id |-> "v1", timestamp |-> t, validation_type |-> validationType,
          passed |-> IF passed THEN 1 ELSE 0, details |-> NullJson], t).db

\* The store a validate* call leaves: the calls read with db.get and
\* db.getAll only; logValidation, the one method of the validator that
\* writes, is called by none of them
validatorWrites(d, validationType, passed, t) == d

\* The rule engine. A rule is [name, type, validator]; a validator is named
\* by what the function does with the data it is given:
\*   the two default rules (an ERROR for a negative affection or timestamp),
\*   "passes"       returns {passed: true, errors: []}
\*   "warns"        returns {passed: true, errors: [], warnings: [a WARNING]}
\*   "fails"        returns {passed: false, errors: [an ERROR]}
\*   "failsEmpty"   returns {passed: false, errors: []}
\*   "failsBare"    returns {passed: false}
\*   "throws"       throws
\* data holds the fields the caller set.
GENERAL == "general"

VALIDATION_TYPES == {"character", "timeline", "location", "inventory", GENERAL}

Rule(name, validator, type) == [name |-> name, validator |-> validator, type |-> type]

\* _registerDefaultRules
DefaultRules ==
  <<Rule("no-negative-affection", "no-negative-affection", "character"),
    Rule("no-negative-timestamp", "no-negative-timestamp", "timeline")>>

\* Map.set: a name the map holds keeps its place
registerRule(registry, name, validator, type) ==
  IF \E i \in 1..Len(registry) : registry[i].name = name
  THEN [i \in 1..Len(registry) |->
          IF registry[i].name = name THEN Rule(name, validator, type) ELSE registry[i]]
  ELSE Append(registry, Rule(name, validator, type))

Passing == [threw |-> FALSE, passed |-> TRUE, errors |-> <<>>]

Failing(field) ==
  [threw |-> FALSE, passed |-> FALSE, errors |-> <<Entry(field, ERROR)>>]

\* rule.validator(data): the object the function returns, or threw = TRUE;
\* the object may lack errors and warnings
Call(rule, data) ==
  CASE rule.validator = "no-negative-affection" ->
         IF "affection" \in DOMAIN data /\ data.affection < 0
         THEN Failing("affection") ELSE Passing
    [] rule.validator = "no-negative-timestamp" ->
         IF "timestamp" \in DOMAIN data /\ data.timestamp < 0
         THEN Failing("timestamp") ELSE Passing
    [] rule.validator = "passes" -> Passing
    [] rule.validator = "warns" ->
         [threw |-> FALSE, passed |-> TRUE, errors |-> <<>>,
          warnings |-> <<Entry(rule.name, WARNING)>>]
    [] rule.validator = "fails" -> Failing(rule.name)
    [] rule.validator = "failsEmpty" ->
         [threw |-> FALSE, passed |-> FALSE, errors |-> <<>>]
    [] rule.validator = "failsBare" -> [threw |-> FALSE, passed |-> FALSE]
    [] rule.validator = "throws" -> [threw |-> TRUE]

\* The rules the loop runs, in Map order
\* A loop that runs every registered rule, whatever its type
Selected_Every(registry, type) == registry

Selected(registry, type) ==
  SelectSeq(registry, LAMBDA rule : rule.type = type \/ rule.type = GENERAL)

\* One turn of the loop body: errors.push(...result.errors) throws when the
\* object has no errors, and the catch block skips the rule
RunRule(acc, rule, data) ==
  LET result == Call(rule, data)
  IN IF result.threw THEN acc
     ELSE IF ~result.passed /\ "errors" \notin DOMAIN result THEN acc
     ELSE [errors |-> IF result.passed THEN acc.errors
                      ELSE acc.errors \o result.errors,
           warnings |-> IF "warnings" \in DOMAIN result
                        THEN acc.warnings \o result.warnings ELSE acc.warnings]

RECURSIVE RunRules(_, _, _)
RunRules(acc, selected, data) ==
  IF Len(selected) = 0 THEN acc
  ELSE RunRules(RunRule(acc, selected[1], data), Tail(selected), data)

validateWithRules(registry, data, type) ==
  LET done == RunRules([errors |-> <<>>, warnings |-> <<>>],
                       Selected(registry, type), data)
  IN _buildResult(Len(done.errors) = 0, done.errors, done.warnings)

----------------------------------------------------------------------------
(* StateManager. A world w holds the store, the cache and the uuid counter; *)
(* an operation returns the world it leaves and ok = FALSE when it throws.  *)

randomUUID(w) == UUIDs[w.uuid + 1]

MapHas(bucket, key) == \E i \in 1..Len(bucket) : bucket[i].key = key

MapGet(bucket, key) == bucket[CHOOSE i \in 1..Len(bucket) : bucket[i].key = key]

\* Map.set keeps the place of a key the map already holds
MapSet(bucket, key, data, t) ==
  LET entry == [key |-> key, data |-> data, timestamp |-> t]
  IN IF MapHas(bucket, key)
     THEN [i \in 1..Len(bucket) |-> IF bucket[i].key = key THEN entry ELSE bucket[i]]
     ELSE Append(bucket, entry)

MapDelete(bucket, key) == SelectSeq(bucket, LAMBDA e : e.key # key)

\* getCharacterState serving a cached entry whatever its age
getCharacterState_IgnoresTTL(w, characterId, t) ==
  LET bucket == w.cache.characters
      character == GetById(w.db, "characters", characterId)
      set == MapSet(bucket, characterId, character, t)
  IN IF MapHas(bucket, characterId)
     THEN [value |-> MapGet(bucket, characterId).data, w |-> w]
     ELSE IF character # NoRow
     THEN [value |-> character,
           w |-> [w EXCEPT !.cache.characters =
                    IF Len(set) > cacheSize THEN Tail(set) ELSE set]]
     ELSE [value |-> character, w |-> w]

getCharacterState(w, characterId, t) ==
  LET bucket == w.cache.characters
  IN IF MapHas(bucket, characterId)
        /\ t - MapGet(bucket, characterId).timestamp < cacheTTL
     THEN [value |-> MapGet(bucket, characterId).data, w |-> w]
     ELSE LET character == GetById(w.db, "characters", characterId)
              set == MapSet(bucket, characterId, character, t)
          IN IF character # NoRow
             THEN [value |-> character,
                   w |-> [w EXCEPT !.cache.characters =
                            IF Len(set) > cacheSize THEN Tail(set) ELSE set]]
             ELSE [value |-> character, w |-> w]

\* The row with its connected_to column parsed: [] when the column is NULL
parsedLocation(location) ==
  [location EXCEPT !.connected_to =
     IF @ # NullJson THEN JSONparse(@) ELSE <<>>]

\* getLocation sets the cache entry and never limits the size of the bucket
getLocation(w, locationId, t) ==
  LET bucket == w.cache.locations
  IN IF MapHas(bucket, locationId)
        /\ t - MapGet(bucket, locationId).timestamp < cacheTTL
     THEN [value |-> MapGet(bucket, locationId).data, w |-> w]
     ELSE LET location == GetById(w.db, "locations", locationId)
          IN IF location # NoRow
             THEN [value |-> parsedLocation(location),
                   w |-> [w EXCEPT !.cache.locations =
                            MapSet(bucket, locationId, parsedLocation(location), t)]]
             ELSE [value |-> NoRow, w |-> w]

\* data holds id, affection, emotion and current_location
createCharacter(w, data, t) ==
  LET characterData ==
        [id |-> data.id, name |-> data.id, affection |-> data.affection,
         emotion |-> IF data.emotion = NULL THEN "neutral" ELSE data.emotion,
         current_location |-> data.current_location]
      result == Insert(w.db, "characters", characterData, t)
  IN IF result.ok
     THEN [ok |-> TRUE, id |-> result.id,
           w |-> [w EXCEPT !.db = result.db,
                           !.cache.characters = MapDelete(@, characterData.id)]]
     ELSE [ok |-> FALSE, id |-> result.id, w |-> w]

\* updateCharacterState without this.cache.characters.delete
updateCharacterState_KeepsCache(w, characterId, updates, t) ==
  LET result == UpdateById(w.db, "characters", characterId, updates, t)
  IN IF result.ok
     THEN [ok |-> TRUE, w |-> [w EXCEPT !.db = result.db]]
     ELSE [ok |-> FALSE, w |-> w]

updateCharacterState(w, characterId, updates, t) ==
  LET result == UpdateById(w.db, "characters", characterId, updates, t)
  IN IF result.ok
     THEN [ok |-> TRUE,
           w |-> [w EXCEPT !.db = result.db,
                           !.cache.characters = MapDelete(@, characterId)]]
     ELSE [ok |-> FALSE, w |-> w]

deleteCharacter(w, characterId) ==
  LET result == DeleteById(w.db, "characters", characterId)
  IN [ok |-> TRUE,
      w |-> [w EXCEPT !.db = result.db,
                      !.cache.characters = MapDelete(@, characterId)]]

\* data holds name, type and connected_to; the id is a fresh uuid
createLocation(w, data, t) ==
  LET locationData ==
        [id |-> randomUUID(w), name |-> data.name, type |-> data.type,
         parent_location |-> NULL, connected_to |-> data.connected_to]
      result == Insert(w.db, "locations", locationData, t)
  IN IF result.ok
     THEN [ok |-> TRUE, id |-> result.id,
           w |-> [w EXCEPT !.db = result.db, !.uuid = @ + 1]]
     ELSE [ok |-> FALSE, id |-> result.id, w |-> [w EXCEPT !.uuid = @ + 1]]

getInventory(w, characterId) ==
  SelectSeq(w.db.inventory, LAMBDA r : r.character_id = characterId)

\* item holds item_name and quantity, and may hold item_type and equipped
addInventoryItem(w, characterId, item, t) ==
  LET itemData ==
        [id |-> randomUUID(w), character_id |-> characterId,
         item_name |-> item.item_name,
         item_type |-> IF "item_type" \in DOMAIN item THEN item.item_type ELSE NULL,
         quantity |-> IF item.quantity = 0 THEN 1 ELSE item.quantity,
         equipped |-> IF "equipped" \in DOMAIN item /\ item.equipped THEN 1 ELSE 0]
      result == Insert(w.db, "inventory", itemData, t)
  IN IF result.ok
     THEN [ok |-> TRUE, id |-> result.id,
           w |-> [w EXCEPT !.db = result.db, !.uuid = @ + 1]]
     ELSE [ok |-> FALSE, id |-> result.id, w |-> [w EXCEPT !.uuid = @ + 1]]

deleteInventoryItem(w, itemId) ==
  [ok |-> TRUE, w |-> [w EXCEPT !.db = DeleteById(w.db, "inventory", itemId).db]]

addTimelineEvent(w, event, t) ==
  LET eventData ==
        [id |-> randomUUID(w),
         timestamp |-> IF event.timestamp = 0 THEN t ELSE event.timestamp,
         event_type |-> event.event_type, description |-> event.description,
         participants |-> IF "participants" \in DOMAIN event
                          THEN JSONstringify(event.participants) ELSE NullJson,
         importance |-> IF event.importance = 0 THEN 1 ELSE event.importance]
      result == Insert(w.db, "timeline", eventData, t)
  IN IF result.ok
     THEN [ok |-> TRUE, id |-> result.id,
           w |-> [w EXCEPT !.db = result.db, !.uuid = @ + 1]]
     ELSE [ok |-> FALSE, id |-> result.id, w |-> [w EXCEPT !.uuid = @ + 1]]

addMemory(w, characterId, memory, t) ==
  LET memoryData ==
        [id |-> randomUUID(w), character_id |-> characterId,
         content |-> memory.content,
         importance |-> IF memory.importance = 0 THEN 1 ELSE memory.importance,
         timestamp |-> t]
      result == Insert(w.db, "memories", memoryData, t)
  IN IF result.ok
     THEN [ok |-> TRUE, id |-> result.id,
           w |-> [w EXCEPT !.db = result.db, !.uuid = @ + 1]]
     ELSE [ok |-> FALSE, id |-> result.id, w |-> [w EXCEPT !.uuid = @ + 1]]

\* A dump that leaves the locations out
StateDump_NoLocations(d) ==
  [i \in 1..Len(StateTables) |->
     IF StateTables[i] = "locations" THEN <<>> ELSE d[StateTables[i]]]

\* A dump that leaves the inventory out
StateDump_NoInventory(d) ==
  [i \in 1..Len(StateTables) |->
     IF StateTables[i] = "inventory" THEN <<>> ELSE d[StateTables[i]]]

\* The dump of the five state tables; JSON.stringify and JSON.parse keep every
\* column of every row
StateDump(d) == [i \in 1..Len(StateTables) |-> d[StateTables[i]]]

createSnapshot(w, description, t) ==
  LET snapshotData ==
        [id |-> randomUUID(w), snapshot_time |-> t,
         state_data |-> StateDump(w.db), description |-> description]
      result == Insert(w.db, "state_snapshots", snapshotData, t)
  IN [ok |-> result.ok, id |-> result.id,
      w |-> [w EXCEPT !.db = result.db, !.uuid = @ + 1]]

\* A restore that clears the snapshots and the validation log as well
RestoreStatements_ClearsSnapshots(state) ==
  <<[kind |-> "delete", table |-> "state_snapshots"],
    [kind |-> "delete", table |-> "validation_logs"]>>
  \o [i \in 1..Len(state[1]) |-> [kind |-> "insert", table |-> "characters", row |-> state[1][i]]]

\* The statements restoreSnapshot runs inside its transaction, in order
RestoreStatements(state) ==
  [i \in 1..Len(StateTables) |-> [kind |-> "delete", table |-> StateTables[i]]]
  \o [i \in 1..Len(state[1]) |-> [kind |-> "insert", table |-> "characters", row |-> state[1][i]]]
  \o [i \in 1..Len(state[2]) |-> [kind |-> "insert", table |-> "timeline", row |-> state[2][i]]]
  \o [i \in 1..Len(state[3]) |-> [kind |-> "insert", table |-> "locations", row |-> state[3][i]]]
  \o [i \in 1..Len(state[4]) |-> [kind |-> "insert", table |-> "inventory", row |-> state[4][i]]]
  \o [i \in 1..Len(state[5]) |-> [kind |-> "insert", table |-> "memories", row |-> state[5][i]]]

\* Runs statements k.. of a callback on d; the store fails on statement failAt
\* (0: on none). A statement is a raw DELETE FROM table ("delete"), an insert,
\* an update or a delete by id ("remove"), or a throw of the callback itself.
\* ok = FALSE leaves in db what the statements before the failure wrote.
RECURSIVE RunStatements(_, _, _, _, _)
RunStatements(d, stmts, k, failAt, t) ==
  IF k > Len(stmts) THEN [ok |-> TRUE, db |-> d]
  ELSE IF k = failAt \/ stmts[k].kind = "throw" THEN [ok |-> FALSE, db |-> d]
  ELSE IF stmts[k].kind = "delete"
  THEN RunStatements(DeleteAll(d, stmts[k].table), stmts, k + 1, failAt, t)
  ELSE IF stmts[k].kind = "remove"
  THEN RunStatements(DeleteById(d, stmts[k].table, stmts[k].id).db,
                     stmts, k + 1, failAt, t)
  ELSE LET result == IF stmts[k].kind = "update"
                     THEN UpdateById(d, stmts[k].table, stmts[k].id, stmts[k].data, t)
                     ELSE Insert(d, stmts[k].table, stmts[k].row, t)
       IN IF result.ok
          THEN RunStatements(result.db, stmts, k + 1, failAt, t)
          ELSE [ok |-> FALSE, db |-> d]

\* A transaction that commits what the callback wrote before it threw
transaction_NoRollback(before, outcome) == outcome

\* A transaction that rethrows and keeps the writes made before the throw
transaction_KeepsWrites(before, outcome) == [ok |-> outcome.ok, db |-> outcome.db]

\* db.transaction(callback)(): COMMIT what the callback wrote, or ROLLBACK to
\* the store before it when the callback throws
transaction(before, outcome) ==
  IF outcome.ok THEN outcome ELSE [ok |-> FALSE, db |-> before]

restoreSnapshot(w, snapshotId, failAt, t) ==
  LET snapshot == GetById(w.db, "state_snapshots", snapshotId)
  IN IF snapshot = NoRow THEN [ok |-> FALSE, w |-> w]
     ELSE LET state == snapshot.state_data
              result == transaction(w.db,
                          RunStatements(w.db, RestoreStatements(state), 1, failAt, t))
          IN IF result.ok
             THEN [ok |-> TRUE, w |-> [w EXCEPT !.db = result.db, !.cache = EmptyCache]]
             ELSE [ok |-> FALSE, w |-> [w EXCEPT !.db = result.db]]

----------------------------------------------------------------------------
(* StateExtractor. A text is the record of what the patterns find in it:    *)
(*   affection  the affection patterns that match, each with its number     *)
(*   emotion    the emotion keywords occurring, one entry per occurrence    *)
(*   location   the movement keywords that match, each with the name after  *)
(*   inventory  the matches of the add and remove patterns, in text order   *)
(*   levels     the importance levels one of whose keywords occurs          *)
(*   participants  the names the two name patterns capture, in order        *)
(*   empty      whether the text is the empty string                        *)
(*   raises     the extractors in which an internal step raises during the  *)
(*              call (the lookup of the character, a use of the text)       *)

\* Patterns none of which is marked negative
affectionPatterns_AllPositive ==
  [p \in 1..10 |-> [type |-> IF p \in {3, 4, 9} THEN "absolute" ELSE "delta",
                    negative |-> FALSE]]

affectionPatterns ==
  <<[type |-> "delta", negative |-> FALSE],
    [type |-> "delta", negative |-> TRUE],
    [type |-> "absolute", negative |-> FALSE],
    [type |-> "absolute", negative |-> FALSE],
    [type |-> "delta", negative |-> FALSE],
    [type |-> "delta", negative |-> TRUE],
    [type |-> "delta", negative |-> FALSE],
    [type |-> "delta", negative |-> TRUE],
    [type |-> "absolute", negative |-> FALSE],
    [type |-> "delta", negative |-> FALSE]>>

\* The categories in the order Object.entries yields them, each with keywords
\* of its list ("xingfen" is in the lists of happy and of excited)
emotionKeywords ==
  <<[emotion |-> "happy", keywords |-> {"gaoxing", "xingfen", "weixiao", "happy", "smile"}],
    [emotion |-> "sad", keywords |-> {"nanguo", "beishang", "sad", "cry"}],
    [emotion |-> "angry", keywords |-> {"shengqi", "angry", "mad"}],
    [emotion |-> "excited", keywords |-> {"jidong", "xingfen", "excited"}],
    [emotion |-> "scared", keywords |-> {"haipa", "scared", "afraid"}],
    [emotion |-> "confused", keywords |-> {"kunhuo", "confused", "puzzled"}],
    [emotion |-> "calm", keywords |-> {"pingjing", "calm", "peaceful"}],
    [emotion |-> "anxious", keywords |-> {"jiaolv", "anxious", "worried"}],
    [emotion |-> "loving", keywords |-> {"ai", "loving", "tender"}]>>

locationKeywords ==
  <<"zoujin", "laidao", "daoda", "jinru", "dida", "qianwang", "qule",
    "entered", "arrived at", "went to", "moved to">>

\* The extractors whose failure would leave extractAllStates' callees uncaught
Escapes_All(text) == text.raises

\* Each extractor runs inside try { } catch (error) { log; return fallback },
\* so of the failures in text.raises none leaves its extractor
Escapes(text) == {}

Min(S) == CHOOSE x \in S : \A y \in S : x <= y

Max(S) == CHOOSE x \in S : \A y \in S : x >= y

\* extractAffectionChange taking affection 0 for a character it does not find
extractAffectionChange_AssumesZero(w, characterId, text, t) ==
  LET got == getCharacterState(w, characterId, t)
      currentAffection == IF got.value = NoRow THEN 0 ELSE got.value.affection
      matching == {m.pattern : m \in text.affection}
  IN IF "affection" \in text.raises \/ matching = {} THEN [value |-> NoRow, w |-> got.w]
     ELSE LET p == Min(matching)
              value == (CHOOSE m \in text.affection : m.pattern = p).value
              delta == IF affectionPatterns[p].negative THEN -value ELSE value
          IN [value |->
                IF affectionPatterns[p].type = "absolute"
                THEN [delta |-> value - currentAffection, newValue |-> value,
                      currentValue |-> currentAffection]
                ELSE [delta |-> delta, newValue |-> currentAffection + delta,
                      currentValue |-> currentAffection],
              w |-> got.w]

\* extractAffectionChange applying the last pattern that matches
extractAffectionChange_LastMatch(w, characterId, text, t) ==
  LET got == getCharacterState(w, characterId, t)
      character == got.value
      matching == {m.pattern : m \in text.affection}
      p == Max(matching)
      value == (CHOOSE m \in text.affection : m.pattern = p).value
      delta == IF affectionPatterns[p].negative THEN -value ELSE value
  IN IF "affection" \in text.raises THEN [value |-> NoRow, w |-> w]
     ELSE IF character = NoRow \/ matching = {} THEN [value |-> NoRow, w |-> got.w]
     ELSE [value |->
             IF affectionPatterns[p].type = "absolute"
             THEN [delta |-> value - character.affection, newValue |-> value,
                   currentValue |-> character.affection]
             ELSE [delta |-> delta, newValue |-> character.affection + delta,
                   currentValue |-> character.affection],
           w |-> got.w]

extractAffectionChange(w, characterId, text, t) ==
  LET got == getCharacterState(w, characterId, t)
      character == got.value
  IN IF "affection" \in text.raises THEN [value |-> NoRow, w |-> w]
     ELSE IF character = NoRow THEN [value |-> NoRow, w |-> got.w]
     ELSE LET currentAffection == character.affection
              matching == {m.pattern : m \in text.affection}
          IN IF matching = {} THEN [value |-> NoRow, w |-> got.w]
             ELSE LET p == Min(matching)
                      value == (CHOOSE m \in text.affection : m.pattern = p).value
                      delta == IF affectionPatterns[p].negative THEN -value ELSE value
                  IN [value |->
                        IF affectionPatterns[p].type = "absolute"
                        THEN [delta |-> value - currentAffection, newValue |-> value,
                              currentValue |-> currentAffection]
                        ELSE [delta |-> delta, newValue |-> currentAffection + delta,
                              currentValue |-> currentAffection],
                      w |-> got.w]

Score(text, i) ==
  Cardinality({k \in 1..Len(text.emotion) :
                 text.emotion[k] \in emotionKeywords[i].keywords})

\* A sort that would put the last of the categories with the top score first
extractEmotion_LastOfTies(text) ==
  LET scored == {i \in 1..Len(emotionKeywords) : Score(text, i) > 0}
  IN IF "emotion" \in text.raises \/ scored = {} THEN NoRow
     ELSE LET top == Max({Score(text, i) : i \in scored})
              best == Max({i \in scored : Score(text, i) = top})
          IN [emotion |-> emotionKeywords[best].emotion, score |-> top]

\* The stable descending sort puts first the first category with the top score
extractEmotion(text) ==
  LET scored == {i \in 1..Len(emotionKeywords) : Score(text, i) > 0}
  IN IF "emotion" \in text.raises \/ scored = {} THEN NoRow
     ELSE LET top == Max({Score(text, i) : i \in scored})
              best == Min({i \in scored : Score(text, i) = top})
          IN [emotion |-> emotionKeywords[best].emotion, score |-> top]

KeywordIndex(keyword) ==
  CHOOSE i \in 1..Len(locationKeywords) : locationKeywords[i] = keyword

extractLocationChange(text) ==
  IF "location" \in text.raises \/ text.location = {} THEN NoRow
  ELSE LET k == Min({KeywordIndex(m.keyword) : m \in text.location})
           match == CHOOSE m \in text.location : m.keyword = locationKeywords[k]
       IN [location |-> match.location, keyword |-> match.keyword]

\* A match holds action, pattern (1..3), quantity (the number the quantity
\* group captures, <<>> when the group is unset) and item_name; the add
\* patterns are tried before the remove patterns
PatternMatches(text, action, pattern) ==
  SelectSeq(text.inventory, LAMBDA m : m.action = action /\ m.pattern = pattern)

Change(characterId, m) ==
  [action |-> m.action, item_name |-> m.item_name,
   quantity |-> IF m.quantity = <<>> THEN 1 ELSE m.quantity[1],
   character_id |-> characterId]

extractInventoryChanges(characterId, text) ==
  LET matches == PatternMatches(text, "add", 1) \o PatternMatches(text, "add", 2)
                 \o PatternMatches(text, "add", 3)
                 \o PatternMatches(text, "remove", 1) \o PatternMatches(text, "remove", 2)
                 \o PatternMatches(text, "remove", 3)
  IN IF "inventory" \in text.raises THEN <<>>
     ELSE [i \in 1..Len(matches) |-> Change(characterId, matches[i])]

RECURSIVE Dedup(_)
Dedup(s) ==
  IF Len(s) = 0 THEN <<>>
  ELSE LET front == Dedup(SubSeq(s, 1, Len(s) - 1))
       IN IF \E i \in 1..Len(front) : front[i] = s[Len(s)]
          THEN front ELSE Append(front, s[Len(s)])

extractEvents(text, t) ==
  LET importance == Max({1} \cup text.levels)
  IN IF "events" \notin text.raises /\ (importance >= 2 \/ Len(text.participants) > 0)
     THEN <<[event_type |-> "general",
             description |-> IF text.empty THEN NULL ELSE "text",
             timestamp |-> t, importance |-> importance,
             participants |-> Dedup(text.participants)]>>
     ELSE <<>>

\* A failure that left an extractor would end in the catch block, which
\* returns {}: an object none of whose categories is set
extractAllStates(w, characterId, text, t) ==
  LET affection == extractAffectionChange(w, characterId, text, t)
      contained == Escapes(text) = {}
  IN [w |-> affection.w,
      value |-> [affection |-> IF contained THEN affection.value ELSE NoRow,
                 emotion |-> IF contained THEN extractEmotion(text) ELSE NoRow,
                 location |-> IF contained THEN extractLocationChange(text) ELSE NoRow,
                 inventory |-> IF contained
                               THEN extractInventoryChanges(characterId, text)
                               ELSE <<>>,
                 events |-> IF contained THEN extractEvents(text, t) ELSE <<>>]]

----------------------------------------------------------------------------
(* StateIntegrator. Each _process step returns the world it leaves, whether  *)
(* validation passed, whether the change was applied, the errors and        *)
(* warnings of its result, whether its catch block ran, and whether an      *)
(* exception left it.                                                       *)

Outcome(w, passed, applied, errors, warnings) ==
  [w |-> w, passed |-> passed, applied |-> applied, errors |-> errors,
   warnings |-> warnings, caught |-> FALSE, threw |-> FALSE]

\* A catch block that rethrows instead of recording the failure
Caught_Rethrows(w, passed, errors, warnings, field) ==
  [w |-> w, passed |-> passed, applied |-> FALSE, errors |-> errors,
   warnings |-> warnings, caught |-> FALSE, threw |-> TRUE]

\* catch (error) { result.errors.push({field, message}); return result; }
Caught(w, passed, errors, warnings, field) ==
  [w |-> w, passed |-> passed, applied |-> FALSE,
   errors |-> Append(errors, Entry(field, NULL)),
   warnings |-> warnings, caught |-> TRUE, threw |-> FALSE]

\* _processAffection applying a change that failed validation unless
\* strictMode is set
_processAffection_LenientApplies(w, opts, characterId, affectionData, dryRun, t) ==
  LET validation == validateCharacterUpdate(w.db, characterId,
                                            [affection |-> affectionData.newValue])
      update == updateCharacterState(w, characterId,
                                     [affection |-> affectionData.newValue], t)
  IN IF (validation.passed \/ ~opts.strictMode) /\ ~dryRun /\ opts.autoApply
     THEN IF update.ok
          THEN Outcome(update.w, validation.passed, TRUE, validation.errors,
                       validation.warnings)
          ELSE Caught(update.w, validation.passed, validation.errors,
                      validation.warnings, "affection")
     ELSE Outcome(w, validation.passed, FALSE, validation.errors, validation.warnings)

\* result.applied starts FALSE; the strictMode branch assigns FALSE to it
_processAffection(w, opts, characterId, affectionData, dryRun, t) ==
  LET validation == validateCharacterUpdate(w.db, characterId,
                                            [affection |-> affectionData.newValue])
      update == updateCharacterState(w, characterId,
                                     [affection |-> affectionData.newValue], t)
  IN IF validation.passed /\ ~dryRun /\ opts.autoApply
     THEN IF update.ok
          THEN Outcome(update.w, TRUE, TRUE, validation.errors, validation.warnings)
          ELSE Caught(update.w, TRUE, validation.errors, validation.warnings, "affection")
     ELSE Outcome(w, validation.passed,
                  IF ~validation.passed /\ opts.strictMode THEN FALSE ELSE FALSE,
                  validation.errors, validation.warnings)

\* _processEmotion applying the change whatever validation says
_processEmotion_Ungated(w, opts, characterId, emotionData, dryRun, t) ==
  LET validation == validateCharacterUpdate(w.db, characterId,
                                            [emotion |-> emotionData.emotion])
      update == updateCharacterState(w, characterId,
                                     [emotion |-> emotionData.emotion], t)
  IN IF ~dryRun /\ opts.autoApply
     THEN Outcome(update.w, validation.passed, TRUE, validation.errors,
                  validation.warnings)
     ELSE Outcome(w, validation.passed, FALSE, validation.errors, validation.warnings)

_processEmotion(w, opts, characterId, emotionData, dryRun, t) ==
  LET validation == validateCharacterUpdate(w.db, characterId,
                                            [emotion |-> emotionData.emotion])
      update == updateCharacterState(w, characterId,
                                     [emotion |-> emotionData.emotion], t)
  IN IF validation.passed /\ ~dryRun /\ opts.autoApply
     THEN IF update.ok
          THEN Outcome(update.w, TRUE, TRUE, validation.errors, validation.warnings)
          ELSE Caught(update.w, TRUE, validation.errors, validation.warnings, "emotion")
     ELSE Outcome(w, validation.passed, FALSE, validation.errors, validation.warnings)

\* _processLocation creating the missing Location in a dry run too
_processLocation_AlwaysCreates(w, opts, characterId, locationData, dryRun, t) ==
  LET existingLocation == GetLocationByName(w.db, locationData.location)
      created == createLocation(w, [name |-> locationData.location, type |-> "unknown",
                                    connected_to |-> NullJson], t)
      w1 == IF existingLocation = NoRow THEN created.w ELSE w
      locationId == IF existingLocation # NoRow THEN existingLocation.id ELSE created.id
      validation == validateCharacterUpdate(w1.db, characterId,
                                            [current_location |-> locationId])
      update == updateCharacterState(w1, characterId,
                                     [current_location |-> locationId], t)
  IN IF validation.passed /\ ~dryRun /\ opts.autoApply
     THEN Outcome(update.w, TRUE, TRUE, validation.errors, validation.warnings)
     ELSE Outcome(w1, validation.passed, FALSE, validation.errors, validation.warnings)

\* _processLocation creating the location without looking its name up
_processLocation_NoLookup(w, opts, characterId, locationData, dryRun, t) ==
  LET create == ~dryRun /\ opts.autoApply
      created == createLocation(w, [name |-> locationData.location, type |-> "unknown",
                                    connected_to |-> NullJson], t)
      w1 == IF create THEN created.w ELSE w
      locationId == IF create THEN created.id ELSE NULL
      validation == validateCharacterUpdate(w1.db, characterId,
                                            [current_location |-> locationId])
      update == updateCharacterState(w1, characterId,
                                     [current_location |-> locationId], t)
  IN IF create /\ ~created.ok THEN Caught(w1, FALSE, <<>>, <<>>, "location")
     ELSE IF locationId = NULL THEN Outcome(w1, FALSE, FALSE, <<>>, <<>>)
     ELSE IF validation.passed
     THEN Outcome(update.w, TRUE, TRUE, validation.errors, validation.warnings)
     ELSE Outcome(w1, validation.passed, FALSE, validation.errors, validation.warnings)

_processLocation(w, opts, characterId, locationData, dryRun, t) ==
  LET existingLocation == GetLocationByName(w.db, locationData.location)
      create == existingLocation = NoRow /\ ~dryRun /\ opts.autoApply
      created == createLocation(w, [name |-> locationData.location, type |-> "unknown",
                                    connected_to |-> NullJson], t)
      w1 == IF create THEN created.w ELSE w
      locationId == IF existingLocation # NoRow THEN existingLocation.id
                    ELSE IF create THEN created.id ELSE NULL
      validation == validateCharacterUpdate(w1.db, characterId,
                                            [current_location |-> locationId])
      update == updateCharacterState(w1, characterId,
                                     [current_location |-> locationId], t)
  IN IF create /\ ~created.ok THEN Caught(w1, FALSE, <<>>, <<>>, "location")
     ELSE IF locationId = NULL THEN Outcome(w1, FALSE, FALSE, <<>>, <<>>)
     ELSE IF validation.passed /\ ~dryRun /\ opts.autoApply
     THEN IF update.ok
          THEN Outcome(update.w, TRUE, TRUE, validation.errors, validation.warnings)
          ELSE Caught(update.w, TRUE, validation.errors, validation.warnings, "location")
     ELSE Outcome(w1, validation.passed, FALSE, validation.errors, validation.warnings)

\* String.includes on item names
Substrings == {<<"sword", "iron sword">>}

Includes(whole, part) == whole = part \/ <<part, whole>> \in Substrings

\* _processInventory deleting every row that matches the name
_processInventory_RemovesEveryMatch(w, opts, characterId, inventoryData, dryRun, t) ==
  LET validation == validateInventoryItem(w.db, characterId,
                      [item_name |-> inventoryData.item_name,
                       quantity |-> inventoryData.quantity])
      added == addInventoryItem(w, characterId,
                 [item_name |-> inventoryData.item_name,
                  quantity |-> inventoryData.quantity], t)
      kept == SelectSeq(w.db.inventory, LAMBDA i :
                ~ /\ i.character_id = characterId
                  /\ \/ Includes(i.item_name, inventoryData.item_name)
                     \/ Includes(inventoryData.item_name, i.item_name))
  IN IF validation.passed /\ ~dryRun /\ opts.autoApply
     THEN IF inventoryData.action = "add"
          THEN IF added.ok
               THEN Outcome(added.w, TRUE, TRUE, validation.errors, validation.warnings)
               ELSE Caught(added.w, TRUE, validation.errors, validation.warnings, "inventory")
          ELSE IF inventoryData.action = "remove" /\ kept # w.db.inventory
          THEN Outcome([w EXCEPT !.db.inventory = kept], TRUE, TRUE,
                       validation.errors, validation.warnings)
          ELSE Outcome(w, TRUE, FALSE, validation.errors, validation.warnings)
     ELSE Outcome(w, validation.passed, FALSE, validation.errors, validation.warnings)

_processInventory(w, opts, characterId, inventoryData, dryRun, t) ==
  LET validation == validateInventoryItem(w.db, characterId,
                      [item_name |-> inventoryData.item_name,
                       quantity |-> inventoryData.quantity])
      added == addInventoryItem(w, characterId,
                 [item_name |-> inventoryData.item_name,
                  quantity |-> inventoryData.quantity], t)
      items == getInventory(w, characterId)
      found == SelectSeq(items, LAMBDA i :
                 \/ Includes(i.item_name, inventoryData.item_name)
                 \/ Includes(inventoryData.item_name, i.item_name))
  IN IF validation.passed /\ ~dryRun /\ opts.autoApply
     THEN IF inventoryData.action = "add"
          THEN IF added.ok
               THEN Outcome(added.w, TRUE, TRUE, validation.errors, validation.warnings)
               ELSE Caught(added.w, TRUE, validation.errors, validation.warnings, "inventory")
          ELSE IF inventoryData.action = "remove" /\ Len(found) > 0
          THEN Outcome(deleteInventoryItem(w, found[1].id).w, TRUE, TRUE,
                       validation.errors, validation.warnings)
          ELSE Outcome(w, TRUE, FALSE, validation.errors, validation.warnings)
     ELSE Outcome(w, validation.passed, FALSE, validation.errors, validation.warnings)

_processEvent(w, opts, eventData, dryRun, t) ==
  LET validation == validateTimelineEvent(eventData, t)
      added == addTimelineEvent(w, eventData, t)
  IN IF validation.passed /\ ~dryRun /\ opts.autoApply
     THEN IF added.ok
          THEN Outcome(added.w, TRUE, TRUE, validation.errors, validation.warnings)
          ELSE Caught(added.w, TRUE, validation.errors, validation.warnings, "event")
     ELSE Outcome(w, validation.passed, FALSE, validation.errors, validation.warnings)

\* The categories of extracted that processMessage handles, in its order
Work(extracted) ==
  (IF extracted.affection # NoRow
   THEN <<[type |-> "affection", data |-> extracted.affection]>> ELSE <<>>)
  \o
  (IF extracted.emotion # NoRow
   THEN <<[type |-> "emotion", data |-> extracted.emotion]>> ELSE <<>>)
  \o
  (IF extracted.location # NoRow
   THEN <<[type |-> "location", data |-> extracted.location]>> ELSE <<>>)
  \o
  [i \in 1..Len(extracted.inventory) |->
     [type |-> "inventory", data |-> extracted.inventory[i]]]
  \o
  [i \in 1..Len(extracted.events) |->
     [type |-> "event", data |-> extracted.events[i]]]

Process(w, opts, call, item, t) ==
  CASE item.type = "affection" ->
         _processAffection(w, opts, call.characterId, item.data, call.dryRun, t)
    [] item.type = "emotion" ->
         _processEmotion(w, opts, call.characterId, item.data, call.dryRun, t)
    [] item.type = "location" ->
         _processLocation(w, opts, call.characterId, item.data, call.dryRun, t)
    [] item.type = "inventory" ->
         _processInventory(w, opts, call.characterId, item.data, call.dryRun, t)
    [] item.type = "event" ->
         _processEvent(w, opts, item.data, call.dryRun, t)

\* processMessage recording an update for every category that passed
\* validation and keeping the errors and warnings of applied categories only
Advance_RecordsPassed(call, item, out) ==
  [call EXCEPT
     !.pos = @ + 1,
     !.result.updates = IF out.passed
                        THEN Append(@, [type |-> item.type, applied |-> out.applied,
                                        data |-> item.data])
                        ELSE @,
     !.result.errors = IF out.applied THEN @ \o out.errors ELSE @,
     !.result.warnings = IF out.applied THEN @ \o out.warnings ELSE @,
     !.log = Append(@, [type |-> item.type, passed |-> out.passed,
                        applied |-> out.applied, caught |-> out.caught,
                        errors |-> out.errors, warnings |-> out.warnings])]

\* processMessage from one await to the next: the call handles the category
\* at call.pos and folds its result into result; log keeps every outcome
Advance(call, item, out) ==
  [call EXCEPT
     !.pos = @ + 1,
     !.result.updates = IF out.applied
                        THEN Append(@, [type |-> item.type, applied |-> TRUE,
                                        data |-> item.data])
                        ELSE @,
     !.result.errors = @ \o out.errors,
     !.result.warnings = @ \o out.warnings,
     !.log = Append(@, [type |-> item.type, passed |-> out.passed,
                        applied |-> out.applied, caught |-> out.caught,
                        errors |-> out.errors, warnings |-> out.warnings])]

NewCall(characterId, text, dryRun, extracted) ==
  [characterId |-> characterId, text |-> text, dryRun |-> dryRun,
   pos |-> 1,
   result |-> [extracted |-> extracted, updates |-> <<>>, errors |-> <<>>,
               warnings |-> <<>>],
   log |-> <<>>]

----------------------------------------------------------------------------
(* Rows as StateManager builds them *)

CharacterData(id, affection, emotion, location) ==
  [id |-> id, name |-> id, affection |-> affection, emotion |-> emotion,
   current_location |-> location]

LocationData(id, name, type, connected_to) ==
  [id |-> id, name |-> name, type |-> type, parent_location |-> NULL,
   connected_to |-> connected_to]

DefaultOptions == [autoApply |-> TRUE, strictMode |-> TRUE]

\* A row written at time 0
Stamped(data) == [created_at |-> 0, updated_at |-> 0] @@ data

----------------------------------------------------------------------------
(* Validation of one character update against a store drawn at Init *)

ValStores ==
  {[EmptyDb EXCEPT
      !.characters = <<Stamped(CharacterData("c1", a, e, l))>>,
      !.locations = <<Stamped(LocationData("l1", "library", "indoor", c)),
                      Stamped(LocationData("l2", "park", "outdoor", NullJson))>>] :
     a \in AffInit, e \in {"neutral", "happy", "calm"}, l \in {NULL, "l1"},
     c \in {NullJson, JSONstringify(<<>>), JSONstringify(<<"l2">>)}}

UpdateInputs ==
  {[affection |-> v] : v \in AffVals}
  \cup {[emotion |-> e] : e \in Emotions \cup {"invalid_emotion"}}
  \cup {[current_location |-> l] : l \in {"l1", "l2", "l7"}}

InitVal ==
  /\ db \in ValStores
  /\ cache = EmptyCache
  /\ now = 0
  /\ uuid = 0
  /\ ops = 0
  /\ options = DefaultOptions
  /\ calls = <<>>
  /\ ret = [op |-> "none"]
  /\ rules = DefaultRules
  /\ taken = <<>>

ValidateCharacterUpdate ==
  \E characterId \in {"c1", NoSuchChar}, updates \in UpdateInputs :
    /\ ret' = [op |-> "validateCharacterUpdate", characterId |-> characterId,
               updates |-> updates,
               value |-> validateCharacterUpdate(db, characterId, updates)]
    /\ UNCHANGED <<db, cache, now, uuid, options, calls, ops, taken, rules>>

NextVal == ValidateCharacterUpdate

SpecVal == InitVal /\ [][NextVal]_vars

----------------------------------------------------------------------------
(* processMessage, one action per stretch between two awaits *)

World == [db |-> db, cache |-> cache, uuid |-> uuid]

NoText ==
  [affection |-> {}, emotion |-> <<>>, location |-> {}, inventory |-> <<>>,
   levels |-> {}, participants |-> <<>>, empty |-> FALSE, raises |-> {}]

Affection(pattern, value) == [pattern |-> pattern, value |-> value]

Moved(keyword, name) == [keyword |-> keyword, location |-> name]

Item(action, pattern, quantity, name) ==
  [action |-> action, pattern |-> pattern, quantity |-> quantity, item_name |-> name]

MsgTexts ==
  {[NoText EXCEPT !.empty = TRUE],
   [NoText EXCEPT !.affection = {Affection(1, 10)}],
   [NoText EXCEPT !.affection = {Affection(1, 30)}],
   [NoText EXCEPT !.affection = {Affection(1, 100)}],
   [NoText EXCEPT !.emotion = <<"sad">>],
   [NoText EXCEPT !.emotion = <<"calm">>],
   [NoText EXCEPT !.location = {Moved("zoujin", "library")}],
   [NoText EXCEPT !.location = {Moved("laidao", "park")}],
   [NoText EXCEPT !.inventory = <<Item("add", 1, <<3>>, "key")>>],
   [NoText EXCEPT !.inventory = <<Item("add", 3, <<0>>, "key")>>],
   [NoText EXCEPT !.inventory = <<Item("remove", 1, <<>>, "sword")>>],
   [NoText EXCEPT !.levels = {1, 5}, !.participants = <<"Alice", "Bob", "Alice">>],
   [NoText EXCEPT !.affection = {Affection(1, 100), Affection(5, 100)},
                  !.emotion = <<"calm", "sad", "calm">>,
                  !.location = {Moved("zoujin", "library")},
                  !.inventory = <<Item("add", 2, <<>>, "key")>>,
                  !.levels = {2}]}

MsgStores ==
  {[EmptyDb EXCEPT
      !.characters = <<Stamped(CharacterData("c1", 50, "happy", l))>>,
      !.locations = <<Stamped(LocationData("l1", "park", "outdoor", c))>>,
      !.inventory = <<Stamped([id |-> "i1", character_id |-> "c1",
                               item_name |-> "iron sword", item_type |-> NULL,
                               quantity |-> 1, equipped |-> 0])>>] :
     l \in {NULL, "l1"}, c \in {NullJson, JSONstringify(<<>>)}}

InitMsg ==
  /\ db \in MsgStores
  /\ cache = EmptyCache
  /\ now = 1
  /\ uuid = 0
  /\ ops = 0
  /\ options \in [autoApply : BOOLEAN, strictMode : BOOLEAN]
  /\ calls = <<>>
  /\ ret = [op |-> "none"]
  /\ rules = DefaultRules
  /\ taken = <<>>

\* The call handles the category at its pos; an exception leaving the step
\* ends the call (processMessage rethrows it)
Run(i, call, w) ==
  LET item == Work(call.result.extracted)[call.pos]
      out == Process(w, options, call, item, now)
  IN /\ db' = out.w.db
     /\ cache' = out.w.cache
     /\ uuid' = out.w.uuid
     /\ calls' = IF out.threw
                 THEN [k \in 1..Len(calls) |-> IF k = i THEN [call EXCEPT !.pos = 0] ELSE calls[k]]
                 ELSE [k \in 1..Len(calls) |-> IF k = i THEN Advance(call, item, out) ELSE calls[k]]
     /\ ret' = [op |-> "step", characterId |-> call.characterId,
                dryRun |-> call.dryRun, type |-> item.type, data |-> item.data,
                passed |-> out.passed, applied |-> out.applied,
                caught |-> out.caught, threw |-> out.threw,
                errors |-> out.errors, warnings |-> out.warnings,
                before |-> db]

\* A processMessage that would yield to other calls right after extraction
Begin_YieldsAfterExtraction(characterId, text, dryRun) ==
  LET extracted == extractAllStates(World, characterId, text, now)
  IN /\ db' = db
     /\ cache' = extracted.w.cache
     /\ uuid' = uuid
     /\ calls' = Append(calls, NewCall(characterId, text, dryRun, extracted.value))
     /\ ret' = [op |-> "extract", characterId |-> characterId,
                dryRun |-> dryRun, before |-> db]

\* extractAllStates and the first category, up to the first await: the body
\* of the async _process function runs inside the call that awaits it
Begin(characterId, text, dryRun) ==
  LET extracted == extractAllStates(World, characterId, text, now)
      call == NewCall(characterId, text, dryRun, extracted.value)
  IN IF Len(Work(extracted.value)) > 0
     THEN LET item == Work(call.result.extracted)[1]
              out == Process(extracted.w, options, call, item, now)
          IN /\ db' = out.w.db
             /\ cache' = out.w.cache
             /\ uuid' = out.w.uuid
             /\ calls' = Append(calls, IF out.threw THEN [call EXCEPT !.pos = 0]
                                       ELSE Advance(call, item, out))
             /\ ret' = [op |-> "step", characterId |-> call.characterId,
                        dryRun |-> call.dryRun, type |-> item.type,
                        data |-> item.data,
                        passed |-> out.passed, applied |-> out.applied,
                        caught |-> out.caught, threw |-> out.threw,
                        errors |-> out.errors, warnings |-> out.warnings,
                        before |-> db]
     ELSE /\ db' = db
          /\ cache' = extracted.w.cache
          /\ uuid' = uuid
          /\ calls' = Append(calls, call)
          /\ ret' = [op |-> "extract", characterId |-> characterId,
                     dryRun |-> dryRun, before |-> db]

ProcessMessage ==
  \E characterId \in {"c1", NoSuchChar}, text \in MsgTexts, dryRun \in BOOLEAN :
    /\ ops < MaxMsgs
    /\ ops' = ops + 1
    /\ Begin(characterId, text, dryRun)
    /\ UNCHANGED <<now, options, taken, rules>>

\* The call resumes after an await and handles its next category
Continue ==
  \E i \in 1..Len(calls) :
    /\ calls[i].pos >= 1
    /\ calls[i].pos <= Len(Work(calls[i].result.extracted))
    /\ Run(i, calls[i], World)
    /\ UNCHANGED <<now, options, ops, taken, rules>>

\* The call has handled every category and returns result, or rethrows
Return ==
  \E i \in 1..Len(calls) :
    /\ calls[i].pos = 0 \/ calls[i].pos > Len(Work(calls[i].result.extracted))
    /\ ret' = [op |-> "processMessage", characterId |-> calls[i].characterId,
               text |-> calls[i].text,
               dryRun |-> calls[i].dryRun, threw |-> calls[i].pos = 0,
               result |-> calls[i].result, log |-> calls[i].log, before |-> db]
    /\ calls' = [k \in 1..(Len(calls) - 1) |-> IF k < i THEN calls[k] ELSE calls[k + 1]]
    /\ UNCHANGED <<db, cache, now, uuid, options, ops, taken, rules>>

NextMsg == ProcessMessage \/ Continue \/ Return

SpecMsg == InitMsg /\ [][NextMsg]_vars

----------------------------------------------------------------------------
(* One StateManager over its store: repository operations, snapshots and   *)
(* the clock. The store may fail a statement of a restore (FailPoints).    *)

\* The store when snapshot s0 was taken
EarlierStore ==
  [EmptyDb EXCEPT
     !.characters = <<Stamped(CharacterData("c1", 30, "neutral", NULL))>>,
     !.locations = <<Stamped(LocationData("l1", "park", "outdoor", NullJson))>>,
     !.inventory = <<Stamped([id |-> "i1", character_id |-> "c1",
                              item_name |-> "iron sword", item_type |-> NULL,
                              quantity |-> 1, equipped |-> 0])>>]

\* The store at the start: c1 was updated after snapshot s0
RepoStore ==
  [EarlierStore EXCEPT
     !.characters = <<Stamped(CharacterData("c1", 50, "happy", "l1"))>>,
     !.state_snapshots =
        <<Stamped([id |-> "s0", snapshot_time |-> 0,
                   state_data |-> StateDump(EarlierStore),
                   description |-> "start"])>>,
     !.validation_logs =
        <<Stamped([id |-> "v1", timestamp |-> 0,
                   validation_type |-> "character_update", passed |-> 1])>>]

NoSuchSnapshot == "s9"

\* The statement of a restore at which the store fails: none, a DELETE, an
\* INSERT after the first
FailPoints == {0, 2, 7}

CharacterUpdates == {[affection |-> 80], [affection |-> 150]}

\* Whether the cache holds a live entry of the character
Cached(characterId) ==
  /\ MapHas(cache.characters, characterId)
  /\ now - MapGet(cache.characters, characterId).timestamp < cacheTTL

\* What an operation leaves in ret: its outcome, the store before it, whether
\* the cache held the character, and the operation before it
Returned(op, id, ok, value) ==
  [op |-> op, id |-> id, ok |-> ok, value |-> value, before |-> db,
   cached |-> Cached(id),
   prev |-> [op |-> ret.op, id |-> ret.id, ok |-> ret.ok, cached |-> ret.cached]]

InitRepo ==
  /\ db = RepoStore
  /\ cache = EmptyCache
  /\ now = 1
  /\ uuid = 0
  /\ ops = 0
  /\ options = DefaultOptions
  /\ calls = <<>>
  /\ ret = [op |-> "none", id |-> NULL, ok |-> TRUE, cached |-> FALSE]
  /\ rules = DefaultRules
  /\ taken = <<[id |-> "s0",
                state |-> [i \in 1..Len(StateTables) |-> EarlierStore[StateTables[i]]]]>>

\* The world an operation leaves becomes the state
Leaves(w) ==
  /\ db' = w.db
  /\ cache' = w.cache
  /\ uuid' = w.uuid

Started ==
  /\ ops < MaxOps
  /\ ops' = ops + 1
  /\ UNCHANGED <<now, options, calls, rules>>

GetCharacterState ==
  \E characterId \in CharIds :
    LET got == getCharacterState(World, characterId, now)
    IN /\ Started
       /\ Leaves(got.w)
       /\ ret' = Returned("getCharacterState", characterId, TRUE, got.value)
       /\ UNCHANGED taken

CreateCharacter ==
  \E characterId \in CharIds :
    LET out == createCharacter(World, CharacterData(characterId, 70, NULL, NULL), now)
    IN /\ Started
       /\ Leaves(out.w)
       /\ ret' = Returned("createCharacter", characterId, out.ok, NoRow)
       /\ UNCHANGED taken

UpdateCharacterState ==
  \E characterId \in CharIds, updates \in CharacterUpdates :
    LET out == updateCharacterState(World, characterId, updates, now)
    IN /\ Started
       /\ Leaves(out.w)
       /\ ret' = Returned("updateCharacterState", characterId, out.ok, NoRow)
       /\ UNCHANGED taken

DeleteCharacter ==
  \E characterId \in CharIds :
    LET out == deleteCharacter(World, characterId)
    IN /\ Started
       /\ Leaves(out.w)
       /\ ret' = Returned("deleteCharacter", characterId, out.ok, NoRow)
       /\ UNCHANGED taken

AddInventoryItem ==
  LET out == addInventoryItem(World, "c1", [item_name |-> "key", quantity |-> 1], now)
  IN /\ Started
     /\ Leaves(out.w)
     /\ ret' = Returned("addInventoryItem", out.id, out.ok, NoRow)
     /\ UNCHANGED taken

DeleteInventoryItem ==
  LET out == deleteInventoryItem(World, "i1")
  IN /\ Started
     /\ Leaves(out.w)
     /\ ret' = Returned("deleteInventoryItem", "i1", out.ok, NoRow)
     /\ UNCHANGED taken

AddTimelineEvent ==
  LET out == addTimelineEvent(World, [event_type |-> "general", description |-> "text",
                                      timestamp |-> now, importance |-> 2], now)
  IN /\ Started
     /\ Leaves(out.w)
     /\ ret' = Returned("addTimelineEvent", out.id, out.ok, NoRow)
     /\ UNCHANGED taken

AddMemory ==
  LET out == addMemory(World, "c1", [content |-> "text", importance |-> 3], now)
  IN /\ Started
     /\ Leaves(out.w)
     /\ ret' = Returned("addMemory", out.id, out.ok, NoRow)
     /\ UNCHANGED taken

CreateLocation ==
  LET out == createLocation(World, [name |-> "library", type |-> "indoor",
                                    connected_to |-> NullJson], now)
  IN /\ Started
     /\ Leaves(out.w)
     /\ ret' = Returned("createLocation", out.id, out.ok, NoRow)
     /\ UNCHANGED taken

CreateSnapshot ==
  LET out == createSnapshot(World, "snapshot", now)
  IN /\ Started
     /\ Leaves(out.w)
     /\ ret' = Returned("createSnapshot", out.id, out.ok, NoRow)
     /\ taken' = IF out.ok
                 THEN Append(taken,
                        [id |-> out.id,
                         state |-> [i \in 1..Len(StateTables) |-> db[StateTables[i]]]])
                 ELSE taken

RestoreSnapshot ==
  \E snapshotId \in Ids(db.state_snapshots) \cup {NoSuchSnapshot},
     failAt \in FailPoints :
    LET found == snapshotId \in Ids(db.state_snapshots)
        out == restoreSnapshot(World, snapshotId, failAt, now)
    IN /\ found \/ failAt = 0
       /\ Started
       /\ Leaves(out.w)
       /\ ret' = [failAt |-> failAt]
                    @@ Returned("restoreSnapshot", snapshotId, out.ok, NoRow)
       /\ UNCHANGED taken

\* Date.now() moves on between two operations
Tick ==
  /\ now < MaxTime
  /\ now' = now + 1
  /\ UNCHANGED <<db, cache, uuid, options, calls, ops, ret, taken, rules>>

NextRepo ==
  \/ GetCharacterState \/ CreateCharacter \/ UpdateCharacterState \/ DeleteCharacter
  \/ AddInventoryItem \/ DeleteInventoryItem \/ AddTimelineEvent \/ AddMemory
  \/ CreateLocation \/ CreateSnapshot \/ RestoreSnapshot \/ Tick

SpecRepo == InitRepo /\ [][NextRepo]_vars

----------------------------------------------------------------------------
(* The store under the repository: constraints, cascade and transactions.  *)
(* Two characters own an item and a memory each.                           *)

OwnedItem(id, characterId, name) ==
  Stamped([id |-> id, character_id |-> characterId, item_name |-> name,
           item_type |-> NULL, quantity |-> 1, equipped |-> 0])

OwnedMemory(id, characterId) ==
  Stamped([id |-> id, character_id |-> characterId, content |-> "text",
           importance |-> 1, timestamp |-> 0])

StoreStores ==
  {[EmptyDb EXCEPT
      !.characters = <<Stamped(CharacterData("c1", a, "happy", "l1")),
                       Stamped(CharacterData("c2", 50, "neutral", NULL))>>,
      !.locations = <<Stamped(LocationData("l1", "park", "outdoor", NullJson))>>,
      !.timeline = <<Stamped([id |-> "e1", timestamp |-> 0, event_type |-> "general",
                              description |-> "text", participants |-> NullJson,
                              importance |-> 1])>>,
      !.inventory = <<OwnedItem("i1", "c1", "iron sword"), OwnedItem("i2", "c2", "key")>>,
      !.memories = <<OwnedMemory("m1", "c1"), OwnedMemory("m2", "c2")>>] :
     a \in AffInit}

\* Affection values a caller passes to createCharacter and updateCharacterState
AffArgs == {-1, 0, 100, 101}

\* Emotions handed to the repository directly: unset, or a word outside the
\* ten
EmotionArgs == {NULL, "furious"}

InsertRow(table, row) == [kind |-> "insert", table |-> table, row |-> row]

UpdateRow(table, id, data) == [kind |-> "update", table |-> table, id |-> id, data |-> data]

RemoveRow(table, id) == [kind |-> "remove", table |-> table, id |-> id]

Throw == [kind |-> "throw"]

\* Callbacks handed to transaction
TxBodies ==
  {<<InsertRow("characters", CharacterData("c3", 50, "neutral", NULL)),
     InsertRow("characters", CharacterData("c4", 75, "neutral", NULL))>>,
   <<InsertRow("characters", CharacterData("c3", 50, "neutral", NULL)), Throw>>,
   <<UpdateRow("characters", "c1", [affection |-> 80]),
     RemoveRow("inventory", "i1"),
     InsertRow("characters", CharacterData("c3", 150, "neutral", NULL))>>,
   <<RemoveRow("characters", "c2"),
     InsertRow("characters", CharacterData("c1", 50, "neutral", NULL))>>,
   <<UpdateRow("characters", "c1", [affection |-> 10]),
     RemoveRow("inventory", "i2")>>}

AffectionTexts ==
  {[NoText EXCEPT !.affection = {Affection(1, 10)}],
   [NoText EXCEPT !.affection = {Affection(2, 10)}],
   [NoText EXCEPT !.affection = {Affection(7, 20)}],
   [NoText EXCEPT !.affection = {Affection(6, 20)}],
   [NoText EXCEPT !.affection = {Affection(1, 100)}],
   [NoText EXCEPT !.affection = {Affection(2, 100)}],
   NoText}

InitStore ==
  /\ db \in StoreStores
  /\ cache = EmptyCache
  /\ now = 1
  /\ uuid = 0
  /\ ops = 0
  /\ options = DefaultOptions
  /\ calls = <<>>
  /\ ret = [op |-> "none"]
  /\ rules = DefaultRules
  /\ taken = <<>>

StoreCreateCharacter ==
  \E characterId \in {"c1", "c3"}, affection \in AffArgs, emotion \in EmotionArgs :
    LET out == createCharacter(World, CharacterData(characterId, affection, emotion, NULL), now)
    IN /\ Started
       /\ Leaves(out.w)
       /\ ret' = [op |-> "createCharacter", id |-> characterId,
                  affection |-> affection, emotion |-> emotion,
                  ok |-> out.ok, before |-> db]
       /\ UNCHANGED taken

StoreUpdateCharacterState ==
  \E characterId \in {"c1", NoSuchChar}, affection \in AffArgs, emotion \in EmotionArgs :
    LET updates == IF emotion = NULL THEN [affection |-> affection]
                   ELSE [affection |-> affection, emotion |-> emotion]
        out == updateCharacterState(World, characterId, updates, now)
    IN /\ Started
       /\ Leaves(out.w)
       /\ ret' = [op |-> "updateCharacterState", id |-> characterId,
                  affection |-> affection, emotion |-> emotion,
                  ok |-> out.ok, before |-> db]
       /\ UNCHANGED taken

StoreDeleteCharacter ==
  \E characterId \in {"c1", "c2", NoSuchChar} :
    LET out == deleteCharacter(World, characterId)
    IN /\ Started
       /\ Leaves(out.w)
       /\ ret' = [op |-> "deleteCharacter", id |-> characterId, ok |-> out.ok,
                  before |-> db]
       /\ UNCHANGED taken

\* db.transaction(callback) with the callback running stmts
Transaction ==
  \E stmts \in TxBodies, failAt \in {0, 2} :
    LET out == transaction(db, RunStatements(db, stmts, 1, failAt, now))
    IN /\ Started
       /\ db' = out.db
       /\ ret' = [op |-> "transaction", stmts |-> stmts, failAt |-> failAt,
                  ok |-> out.ok, before |-> db]
       /\ UNCHANGED <<cache, uuid, taken>>

\* processMessage on a text whose one category is an affection change
ProcessAffectionMessage ==
  \E text \in AffectionTexts :
    LET extracted == extractAllStates(World, "c1", text, now)
        call == NewCall("c1", text, FALSE, extracted.value)
        work == Work(extracted.value)
        out == Process(extracted.w, options, call, work[1], now)
    IN /\ Started
       /\ IF Len(work) > 0
          THEN /\ Leaves(out.w)
               /\ ret' = [op |-> "processMessage", id |-> "c1", text |-> text,
                          read |-> getCharacterState(World, "c1", now).value,
                          result |-> Advance(call, work[1], out).result, before |-> db]
          ELSE /\ Leaves(extracted.w)
               /\ ret' = [op |-> "processMessage", id |-> "c1", text |-> text,
                          read |-> getCharacterState(World, "c1", now).value,
                          result |-> call.result, before |-> db]
       /\ UNCHANGED taken

NextStore ==
  \/ StoreCreateCharacter \/ StoreUpdateCharacterState \/ StoreDeleteCharacter
  \/ Transaction \/ ProcessAffectionMessage

SpecStore == InitStore /\ [][NextStore]_vars

----------------------------------------------------------------------------
(* Calls of processMessage for one character in flight together on one     *)
(* integrator: a call runs up to its next await, then any call may go on.  *)

MaxCalls == 2

\* c1 owns two rows that match "sword", and c2 owns a sword too
RaceStore ==
  [EmptyDb EXCEPT
     !.characters = <<Stamped(CharacterData("c1", 50, "neutral", NULL)),
                      Stamped(CharacterData("c2", 50, "neutral", NULL))>>,
     !.inventory = <<Stamped([id |-> "i0", character_id |-> "c2",
                              item_name |-> "sword", item_type |-> NULL,
                              quantity |-> 5, equipped |-> 0]),
                     Stamped([id |-> "i1", character_id |-> "c1",
                              item_name |-> "iron sword", item_type |-> NULL,
                              quantity |-> 2, equipped |-> 0]),
                     Stamped([id |-> "i2", character_id |-> "c1",
                              item_name |-> "sword", item_type |-> NULL,
                              quantity |-> 1, equipped |-> 0])>>]

RaceTexts ==
  {[NoText EXCEPT !.affection = {Affection(1, 10)}],
   [NoText EXCEPT !.affection = {Affection(5, 5)},
                  !.emotion = <<"calm">>,
                  !.inventory = <<Item("add", 1, <<>>, "key")>>],
   [NoText EXCEPT !.affection = {Affection(2, 10)}, !.emotion = <<"sad">>],
   [NoText EXCEPT !.emotion = <<"calm">>, !.levels = {2}],
   [NoText EXCEPT !.inventory = <<Item("remove", 1, <<>>, "sword")>>],
   [NoText EXCEPT !.raises = {"affection", "location", "events"},
                  !.affection = {Affection(1, 10)},
                  !.emotion = <<"calm">>,
                  !.location = {Moved("zoujin", "library")},
                  !.inventory = <<Item("add", 1, <<3>>, "key")>>,
                  !.levels = {2}],
   [NoText EXCEPT !.raises = {"emotion", "inventory"},
                  !.affection = {Affection(1, 10)},
                  !.emotion = <<"calm">>,
                  !.inventory = <<Item("add", 1, <<3>>, "key")>>,
                  !.levels = {2}]}

InitRace ==
  /\ db = RaceStore
  /\ cache = EmptyCache
  /\ now = 1
  /\ uuid = 0
  /\ ops = 0
  /\ options = DefaultOptions
  /\ calls = <<>>
  /\ ret = [op |-> "none"]
  /\ rules = DefaultRules
  /\ taken = <<>>

RaceProcessMessage ==
  \E text \in RaceTexts :
    /\ ops < MaxCalls
    /\ ops' = ops + 1
    /\ Begin("c1", text, FALSE)
    /\ UNCHANGED <<now, options, taken, rules>>

NextRace == RaceProcessMessage \/ Continue \/ Return

SpecRace == InitRace /\ [][NextRace]_vars

----------------------------------------------------------------------------
(* Messages that move two characters with no location yet, in flight       *)
(* together, and snapshots taken and restored in between.                  *)

MaxSteps == 4

PlacesStore ==
  [EmptyDb EXCEPT
     !.characters = <<Stamped(CharacterData("c1", 50, "neutral", NULL)),
                      Stamped(CharacterData("c2", 50, "neutral", NULL))>>]

\* The messages: two name the library, one of them reaching its location
\* after an await
PlacesMessages ==
  {[characterId |-> "c1",
    text |-> [NoText EXCEPT !.location = {Moved("zoujin", "library")}]],
   [characterId |-> "c2",
    text |-> [NoText EXCEPT !.emotion = <<"calm">>,
                            !.location = {Moved("laidao", "library")}]],
   [characterId |-> "c1",
    text |-> [NoText EXCEPT !.location = {Moved("zoujin", "park")}]]}

InitPlaces ==
  /\ db = PlacesStore
  /\ cache = EmptyCache
  /\ now = 1
  /\ uuid = 0
  /\ ops = 0
  /\ options = DefaultOptions
  /\ calls = <<>>
  /\ ret = [op |-> "none"]
  /\ rules = DefaultRules
  /\ taken = <<>>

PlacesProcessMessage ==
  \E message \in PlacesMessages :
    /\ ops < MaxSteps
    /\ Len(calls) < MaxCalls
    /\ ops' = ops + 1
    /\ Begin(message.characterId, message.text, FALSE)
    /\ UNCHANGED <<now, options, taken, rules>>

PlacesCreateSnapshot ==
  LET out == createSnapshot(World, "snapshot", now)
  IN /\ ops < MaxSteps
     /\ ops' = ops + 1
     /\ Leaves(out.w)
     /\ ret' = [op |-> "createSnapshot", id |-> out.id, ok |-> out.ok, before |-> db]
     /\ taken' = Append(taken, [id |-> out.id,
                                state |-> [i \in 1..Len(StateTables) |-> db[StateTables[i]]]])
     /\ UNCHANGED <<now, options, calls, rules>>

PlacesRestoreSnapshot ==
  \E snapshotId \in Ids(db.state_snapshots), failAt \in {0, 2} :
    LET out == restoreSnapshot(World, snapshotId, failAt, now)
    IN /\ ops < MaxSteps
       /\ ops' = ops + 1
       /\ Leaves(out.w)
       /\ ret' = [op |-> "restoreSnapshot", id |-> snapshotId, ok |-> out.ok,
                  failAt |-> failAt, before |-> db]
       /\ UNCHANGED <<now, options, calls, taken, rules>>

NextPlaces ==
  \/ PlacesProcessMessage \/ Continue \/ Return
  \/ PlacesCreateSnapshot \/ PlacesRestoreSnapshot

SpecPlaces == InitPlaces /\ [][NextPlaces]_vars

----------------------------------------------------------------------------
(* The validator with its rule engine, and the extractor, over a store     *)

RuleNames == {"r1", "r2"}

Validators == {"passes", "warns", "fails", "failsEmpty", "failsBare", "throws"}

RuleTypes == {"inventory", GENERAL}

RuleData == {[affection |-> -10], [affection |-> 10], [timestamp |-> -1]}

CheckUpdates == {[affection |-> 150], [emotion |-> "sad"], [current_location |-> "l7"]}

CheckEvents ==
  {[event_type |-> "general", description |-> "text", timestamp |-> 0, importance |-> 1],
   [event_type |-> "general", description |-> NULL, timestamp |-> -1, importance |-> 9]}

CheckItems == {[item_name |-> "key", quantity |-> 1], [item_name |-> NULL, quantity |-> -1]}

InitCheck ==
  /\ db \in StoreStores
  /\ cache = EmptyCache
  /\ now = 1
  /\ uuid = 0
  /\ ops = 0
  /\ options = DefaultOptions
  /\ calls = <<>>
  /\ ret = [op |-> "none"]
  /\ rules = DefaultRules
  /\ taken = <<>>

RegisterRule ==
  \E name \in RuleNames, validator \in Validators, type \in RuleTypes :
    /\ rules' = registerRule(rules, name, validator, type)
    /\ ret' = [op |-> "registerRule", name |-> name, before |-> db]
    /\ UNCHANGED <<db, cache, now, uuid, options, calls, ops, taken>>

ValidateWithRules ==
  \E data \in RuleData, type \in {"character", "inventory", GENERAL} :
    LET value == validateWithRules(rules, data, type)
    IN /\ ret' = [op |-> "validateWithRules", data |-> data, type |-> type,
                  value |-> value, before |-> db]
       /\ db' = validatorWrites(db, type, value.passed, now)
       /\ UNCHANGED <<cache, now, uuid, options, calls, ops, taken, rules>>

CheckCharacterUpdate ==
  \E characterId \in {"c1", NoSuchChar}, updates \in CheckUpdates :
    LET value == validateCharacterUpdate(db, characterId, updates)
    IN /\ ret' = [op |-> "validateCharacterUpdate", characterId |-> characterId,
                  updates |-> updates, value |-> value, before |-> db]
       /\ db' = validatorWrites(db, "character", value.passed, now)
       /\ UNCHANGED <<cache, now, uuid, options, calls, ops, taken, rules>>

CheckTimelineEvent ==
  \E event \in CheckEvents :
    LET value == validateTimelineEvent(event, now)
    IN /\ ret' = [op |-> "validateTimelineEvent", value |-> value, before |-> db]
       /\ db' = validatorWrites(db, "timeline", value.passed, now)
       /\ UNCHANGED <<cache, now, uuid, options, calls, ops, taken, rules>>

CheckInventoryItem ==
  \E item \in CheckItems :
    LET value == validateInventoryItem(db, "c1", item)
    IN /\ ret' = [op |-> "validateInventoryItem", value |-> value, before |-> db]
       /\ db' = validatorWrites(db, "inventory", value.passed, now)
       /\ UNCHANGED <<cache, now, uuid, options, calls, ops, taken, rules>>

ExtractTexts ==
  {[NoText EXCEPT !.affection = {Affection(1, 10)},
                  !.emotion = <<"sad">>,
                  !.location = {Moved("zoujin", "library")},
                  !.inventory = <<Item("add", 1, <<3>>, "key"),
                                  Item("remove", 1, <<>>, "sword")>>,
                  !.levels = {5}],
   NoText}

ExtractAllStates ==
  \E characterId \in {"c1", NoSuchChar}, text \in ExtractTexts :
    LET extracted == extractAllStates(World, characterId, text, now)
    IN /\ ret' = [op |-> "extractAllStates", characterId |-> characterId,
                  value |-> extracted.value, before |-> db]
       /\ db' = extracted.w.db
       /\ cache' = extracted.w.cache
       /\ uuid' = extracted.w.uuid
       /\ UNCHANGED <<now, options, calls, ops, taken, rules>>

NextCheck ==
  \/ RegisterRule \/ ValidateWithRules \/ CheckCharacterUpdate
  \/ CheckTimelineEvent \/ CheckInventoryItem \/ ExtractAllStates

SpecCheck == InitCheck /\ [][NextCheck]_vars

----------------------------------------------------------------------------
(* The cache in front of the store: reads, invalidating writes and time    *)

CacheChars == {"c1", "c2", "c3"}

CacheLocations == {"l1", "l2", "l3"}

NoSuchLocation == "l9"

CacheStore ==
  [EmptyDb EXCEPT
     !.characters = <<Stamped(CharacterData("c1", 50, "happy", "l1")),
                      Stamped(CharacterData("c2", 50, "neutral", NULL)),
                      Stamped(CharacterData("c3", 50, "neutral", NULL))>>,
     !.locations = <<Stamped(LocationData("l1", "park", "outdoor", NullJson)),
                     Stamped(LocationData("l2", "library", "indoor",
                                          JSONstringify(<<"l1">>))),
                     Stamped(LocationData("l3", "shop", "indoor", NullJson))>>]

InitCache ==
  /\ db = CacheStore
  /\ cache = EmptyCache
  /\ now = 1
  /\ uuid = 0
  /\ ops = 0
  /\ options = DefaultOptions
  /\ calls = <<>>
  /\ ret = [op |-> "none"]
  /\ rules = DefaultRules
  /\ taken = <<>>

\* What a cache operation leaves in ret: its result, and the store, the
\* cache and the time it started with
Read(op, id, value) ==
  [op |-> op, id |-> id, value |-> value, before |-> db, was |-> cache, at |-> now]

CacheGetCharacterState ==
  \E characterId \in CacheChars \cup {NoSuchChar} :
    LET got == getCharacterState(World, characterId, now)
    IN /\ Leaves(got.w)
       /\ ret' = Read("getCharacterState", characterId, got.value)
       /\ UNCHANGED <<now, options, calls, ops, taken, rules>>

CacheGetLocation ==
  \E locationId \in {"l2", NoSuchLocation} :
    LET got == getLocation(World, locationId, now)
    IN /\ Leaves(got.w)
       /\ ret' = Read("getLocation", locationId, got.value)
       /\ UNCHANGED <<now, options, calls, ops, taken, rules>>

CacheUpdateCharacterState ==
  \E affection \in {20, 50} :
    LET out == updateCharacterState(World, "c1", [affection |-> affection], now)
    IN /\ Leaves(out.w)
       /\ ret' = Read("updateCharacterState", "c1", NoRow)
       /\ UNCHANGED <<now, options, calls, ops, taken, rules>>

CacheDeleteCharacter ==
  LET out == deleteCharacter(World, "c3")
  IN /\ Leaves(out.w)
     /\ ret' = Read("deleteCharacter", "c3", NoRow)
     /\ UNCHANGED <<now, options, calls, ops, taken, rules>>

\* Texts that one or two affection patterns match
CacheTexts ==
  {[NoText EXCEPT !.affection = {Affection(8, 10)}],
   [NoText EXCEPT !.affection = {Affection(10, 5)}],
   [NoText EXCEPT !.affection = {Affection(4, 70)}],
   [NoText EXCEPT !.affection = {Affection(3, 80), Affection(1, 10)}],
   [NoText EXCEPT !.affection = {Affection(2, 10), Affection(9, 30)}],
   NoText}

CacheExtractAffectionChange ==
  \E characterId \in {"c1", "c3", NoSuchChar}, text \in CacheTexts :
    LET extracted == extractAffectionChange(World, characterId, text, now)
    IN /\ Leaves(extracted.w)
       /\ ret' = [text |-> text]
                    @@ Read("extractAffectionChange", characterId, extracted.value)
       /\ UNCHANGED <<now, options, calls, ops, taken, rules>>

NextCache ==
  \/ CacheGetCharacterState \/ CacheGetLocation \/ CacheUpdateCharacterState
  \/ CacheDeleteCharacter \/ CacheExtractAffectionChange \/ Tick

SpecCache == InitCache /\ [][NextCache]_vars

\* Reads of every stored location, and time
GetLocation ==
  \E locationId \in CacheLocations :
    LET got == getLocation(World, locationId, now)
    IN /\ Leaves(got.w)
       /\ ret' = Read("getLocation", locationId, got.value)
       /\ UNCHANGED <<now, options, calls, ops, taken, rules>>

NextLocations == GetLocation \/ Tick

SpecLocations == InitCache /\ [][NextLocations]_vars

----------------------------------------------------------------------------
(* Validation of timeline events and inventory items as callers build them *)

StoredItem(id, characterId, name, type, equipped) ==
  Stamped([id |-> id, character_id |-> characterId, item_name |-> name,
           item_type |-> type, quantity |-> 1, equipped |-> equipped])

\* c1 wears a sword or not, carries a shield and has drunk a potion; c2
\* wears a helmet
ItemStores ==
  {[EmptyDb EXCEPT
      !.characters = <<Stamped(CharacterData("c1", 50, "neutral", NULL)),
                       Stamped(CharacterData("c2", 50, "neutral", NULL))>>,
      !.inventory = <<StoredItem("i1", "c1", "sword", "weapon", e),
                      StoredItem("i2", "c1", "shield", "armor", 0),
                      StoredItem("i3", "c2", "helmet", "armor", 1),
                      StoredItem("i4", "c1", "potion", "consumable", 1)>>] :
     e \in {0, 1}}

ItemInputs ==
  {[item_name |-> "axe", quantity |-> 1] @@ type @@ eq @@ id :
     type \in {<<>>} \cup {[item_type |-> y] :
                 y \in {"weapon", "armor", "accessory", "consumable"}},
     eq \in {<<>>} \cup {[equipped |-> b] : b \in BOOLEAN},
     id \in {<<>>} \cup {[id |-> i] : i \in {"i1", "i2"}}}

\* Events as callers build them: event_type and description set or missing,
\* and any of timestamp, importance and participants left out
Participants(n) == [i \in 1..n |-> "Alice"]

EventInputs ==
  {base @@ ts @@ imp @@ ps :
     base \in {[event_type |-> y, description |-> d] :
                 y \in {NULL, "general"}, d \in {NULL, "text"}},
     ts \in {<<>>} \cup {[timestamp |-> v] : v \in {-1, 0, now + DayMs, now + DayMs + 1}},
     imp \in {<<>>} \cup {[importance |-> v] : v \in {0, 1, 5, 6}},
     ps \in {<<>>} \cup {[participants |-> Participants(n)] : n \in {0, 10, 11}}}

ValidateTimelineEvent ==
  \E event \in EventInputs :
    /\ ret' = [op |-> "validateTimelineEvent", event |-> event,
               value |-> validateTimelineEvent(event, now)]
    /\ UNCHANGED <<db, cache, now, uuid, options, calls, ops, taken, rules>>

ValidateInventoryItem ==
  \E characterId \in {"c1", "c2"}, item \in ItemInputs :
    /\ ret' = [op |-> "validateInventoryItem", characterId |-> characterId,
               item |-> item,
               value |-> validateInventoryItem(db, characterId, item)]
    /\ UNCHANGED <<db, cache, now, uuid, options, calls, ops, taken, rules>>

\* Texts by the words that occur in them, in text order: keywords of happy,
\* of happy and excited, of excited, of sad, and a word that is no keyword
EmotionWords == {"happy", "xingfen", "jidong", "sad", "table"}

EmotionTexts ==
  {[NoText EXCEPT !.emotion = words] :
     words \in UNION {[1..n -> EmotionWords] : n \in 0..3}}

ExtractEmotion ==
  \E text \in EmotionTexts :
    /\ ret' = [op |-> "extractEmotion", text |-> text, value |-> extractEmotion(text)]
    /\ UNCHANGED <<db, cache, now, uuid, options, calls, ops, taken, rules>>

InitArgs ==
  /\ db \in ItemStores
  /\ cache = EmptyCache
  /\ now = 1
  /\ uuid = 0
  /\ ops = 0
  /\ options = DefaultOptions
  /\ calls = <<>>
  /\ ret = [op |-> "none"]
  /\ rules = DefaultRules
  /\ taken = <<>>

NextArgs == ValidateTimelineEvent \/ ValidateInventoryItem \/ ExtractEmotion

SpecArgs == InitArgs /\ [][NextArgs]_vars

----------------------------------------------------------------------------
(* Claims about validateCharacterUpdate *)

HasEntry(list, field) == \E i \in 1..Len(list) : list[i].field = field

Validated(field) ==
  /\ ret.op = "validateCharacterUpdate"
  /\ GetById(db, "characters", ret.characterId) # NoRow
  /\ DOMAIN ret.updates = {field}

C2_EmotionPassesIffValid ==
  Validated("emotion") =>
    LET e == ret.updates.emotion
        current == GetById(db, "characters", ret.characterId).emotion
    IN /\ ret.value.passed <=> (e \in Emotions)
       /\ <<current, e>> \in invalidTransitions =>
            ret.value.passed /\ HasEntry(ret.value.warnings, "emotion")

----------------------------------------------------------------------------
(* Claims about processMessage *)

InSeq(e, list) == \E i \in 1..Len(list) : list[i] = e

HasSeverity(list, severity) == \E i \in 1..Len(list) : list[i].severity = severity

\* The last step handled a category for real: autoApply on, dryRun off
Live == ret.op = "step" /\ ~ret.dryRun /\ options.autoApply

\* The last step handled a category whose validation reported an ERROR
Rejected == ret.op = "step" /\ HasSeverity(ret.errors, ERROR)

\* Every error and warning of every handled category is in the returned result
Reported ==
  \A k \in 1..Len(ret.log) :
    /\ \A i \in 1..Len(ret.log[k].errors) :
         InSeq(ret.log[k].errors[i], ret.result.errors)
    /\ \A i \in 1..Len(ret.log[k].warnings) :
         InSeq(ret.log[k].warnings[i], ret.result.warnings)

\* C3: with autoApply on and dryRun off, a category whose validation yields
\* warnings and no error is applied to the store.
C3_WarningOnlyIsApplied ==
  (Live /\ ~ret.caught /\ Len(ret.errors) = 0 /\ Len(ret.warnings) > 0)
    => ret.applied

\* C4 as stated: a category whose validation reports an ERROR is not applied
\* and leaves every table as it was, the locations table included; the error
\* is in result.errors.
C4_ErrorLeavesStoreUntouched ==
  /\ Rejected => ~ret.applied /\ db = ret.before
  /\ ret.op = "processMessage" => Reported

\* The Location row _processLocation created for the name of the last step
AutoCreated ==
  /\ ret.type = "location"
  /\ GetLocationByName(ret.before, ret.data.location) = NoRow
  /\ Len(db.locations) = Len(ret.before.locations) + 1
  /\ SubSeq(db.locations, 1, Len(ret.before.locations)) = ret.before.locations
  /\ db.locations[Len(db.locations)].name = ret.data.location
  /\ db.locations[Len(db.locations)].type = "unknown"

\* C4: a category whose validation reports an ERROR is not applied and leaves
\* the characters, timeline, inventory, memories, snapshot and validation-log
\* tables as they were; the only row it can leave behind is the Location
\* auto-created for an unknown location name when autoApply is on and dryRun
\* off; the error is in result.errors.
C4_ErrorLeavesOnlyAutoCreatedLocation ==
  /\ Rejected =>
       /\ ~ret.applied
       /\ \A table \in Tables \ {"locations"} : db[table] = ret.before[table]
       /\ db.locations = ret.before.locations \/ (Live /\ AutoCreated)
  /\ ret.op = "processMessage" => Reported

\* A rejected location change left the Location row it created behind
C4_Witness == Rejected /\ Live /\ AutoCreated

C6_DryRunPersistsNothing ==
  /\ (ret.op \in {"step", "extract"} /\ (ret.dryRun \/ ~options.autoApply))
       => db = ret.before
  /\ (ret.op = "step" /\ (ret.dryRun \/ ~options.autoApply)) => ~ret.applied
  /\ (ret.op = "processMessage" /\ (ret.dryRun \/ ~options.autoApply)) =>
       /\ ~ret.threw
       /\ ret.result.updates = <<>>
       /\ db = ret.before
       /\ Len(ret.log) = Len(Work(ret.result.extracted))
       /\ Reported

\* A dry run, with autoApply on, handled a move to a location without a row
\* while the call has errors to report
C6_Witness ==
  /\ ret.op = "step" /\ ret.dryRun /\ options.autoApply
  /\ ret.type = "location"
  /\ GetLocationByName(db, ret.data.location) = NoRow
  /\ \E i \in 1..Len(calls) :
       /\ Len(calls[i].result.errors) > 0
       /\ calls[i].result.extracted.location # NoRow

----------------------------------------------------------------------------
(* Claims about snapshots and the cache *)

\* A row without the stamps the store adds on write
Strip(r) == [k \in DOMAIN r \ {"created_at", "updated_at"} |-> r[k]]

Entities(rows) == [i \in 1..Len(rows) |-> Strip(rows[i])]

\* The five state tables as they were when the snapshot was taken
TakenState(snapshotId) ==
  taken[CHOOSE i \in 1..Len(taken) : taken[i].id = snapshotId].state

Restored == ret.op = "restoreSnapshot" /\ ret.ok

\* C7: createSnapshot immediately followed by restoreSnapshot of that snapshot
\* leaves the five tables with the rows they had, created_at and updated_at
\* included.
C7_RoundTripVerbatim ==
  ( /\ Restored
    /\ ret.prev.op = "createSnapshot" /\ ret.prev.ok /\ ret.prev.id = ret.id )
  => \A i \in 1..Len(StateTables) :
       RowSet(db[StateTables[i]]) = RowSet(ret.before[StateTables[i]])

\* C8: after any writes, a successful restoreSnapshot(S) leaves in the five
\* tables exactly the entities that existed when S was taken, with the ids
\* and the attribute values (every column but the created_at/updated_at
\* stamps) they had then.
C8_RollbackRestoresEntities ==
  Restored =>
    \A i \in 1..Len(StateTables) :
      Entities(db[StateTables[i]]) = Entities(TakenState(ret.id)[i])

\* A restore brought back a deleted item, removed a character created after
\* the snapshot and reverted an update
C8_Witness ==
  /\ Restored
  /\ ret.before.inventory = <<>>
  /\ Len(db.inventory) = 1
  /\ "c2" \in Ids(ret.before.characters)
  /\ "c2" \notin Ids(db.characters)
  /\ GetById(ret.before, "characters", "c1") # NoRow
  /\ GetById(ret.before, "characters", "c1").affection
       # GetById(db, "characters", "c1").affection

\* C9: a restoreSnapshot that fails (unknown snapshot id, or the store failing
\* a DELETE or an INSERT of the restore) throws and leaves every table as it
\* was before the call.
C9_RestoreAllOrNothing ==
  ret.op = "restoreSnapshot" =>
    /\ ret.id \notin Ids(ret.before.state_snapshots) => ~ret.ok
    /\ ~ret.ok => db = ret.before

\* A restore failed at an INSERT, after its DELETEs and an INSERT had run on
\* a store that held rows
C9_Witness ==
  /\ ret.op = "restoreSnapshot" /\ ~ret.ok
  /\ ret.id \in Ids(ret.before.state_snapshots)
  /\ ret.failAt = 7
  /\ Len(ret.before.characters) > 0
  /\ Len(ret.before.inventory) > 0

\* C10: getCharacterState returns the row the store holds for the id (null
\* when it holds none), and every live cache entry equals the stored row.
C10_CacheCoherent ==
  /\ ret.op = "getCharacterState" => ret.value = GetById(db, "characters", ret.id)
  /\ \A i \in 1..Len(cache.characters) :
       now - cache.characters[i].timestamp < cacheTTL
         => cache.characters[i].data
              = GetById(db, "characters", cache.characters[i].key)

\* The first read after an update of a character whose entry was live in
\* the cache returned the updated row
C10_Witness ==
  /\ ret.op = "getCharacterState"
  /\ ret.prev.op = "updateCharacterState" /\ ret.prev.ok
  /\ ret.prev.id = ret.id
  /\ ret.prev.cached
  /\ ret.value # NoRow
  /\ ret.value.affection = 80

----------------------------------------------------------------------------
(* Claims about the store *)

InRange(v) == v >= 0 /\ v <= 100

NotOwnedBy(rows, characterId) ==
  SelectSeq(rows, LAMBDA r : r.character_id # characterId)

\* C12: deleteCharacter removes the character, its inventory items and its
\* memories, and nothing else: no inventory or memory row references the id
\* afterwards, the rows of other characters, the locations and the timeline
\* are unchanged.
C12_DeleteCascadesExactly ==
  ret.op = "deleteCharacter" =>
    /\ \A i \in 1..Len(db.inventory) : db.inventory[i].character_id # ret.id
    /\ \A i \in 1..Len(db.memories) : db.memories[i].character_id # ret.id
    /\ db.characters = SelectSeq(ret.before.characters, LAMBDA r : r.id # ret.id)
    /\ db.inventory = NotOwnedBy(ret.before.inventory, ret.id)
    /\ db.memories = NotOwnedBy(ret.before.memories, ret.id)
    /\ \A table \in {"locations", "timeline", "state_snapshots", "validation_logs"} :
         db[table] = ret.before[table]

\* A character owning an item and a memory was deleted while another
\* character owned an item and a memory too
C12_Witness ==
  /\ ret.op = "deleteCharacter"
  /\ GetById(ret.before, "characters", ret.id) # NoRow
  /\ Len(ret.before.inventory) > Len(db.inventory)
  /\ Len(ret.before.memories) > Len(db.memories)
  /\ Len(db.inventory) > 0
  /\ Len(db.memories) > 0

\* What a committed statement leaves in the store
Written(stmt) ==
  CASE stmt.kind = "insert" ->
         /\ GetById(db, stmt.table, stmt.row.id) # NoRow
         /\ Strip(GetById(db, stmt.table, stmt.row.id)) = stmt.row
    [] stmt.kind = "remove" -> GetById(db, stmt.table, stmt.id) = NoRow
    [] stmt.kind = "update" ->
         GetById(ret.before, stmt.table, stmt.id) # NoRow =>
           \A field \in DOMAIN stmt.data :
             GetById(db, stmt.table, stmt.id)[field] = stmt.data[field]
    [] OTHER -> FALSE

\* C13: a transaction whose callback throws leaves the store as it was before
\* the transaction and the error reaches the caller; a transaction whose
\* callback returns has every write of the callback in the store.
C13_TransactionAtomic ==
  ret.op = "transaction" =>
    /\ ~ret.ok => db = ret.before
    /\ ret.ok => \A k \in 1..Len(ret.stmts) : Written(ret.stmts[k])
    /\ (ret.failAt \in 1..Len(ret.stmts)
        \/ \E k \in 1..Len(ret.stmts) : ret.stmts[k].kind = "throw") => ~ret.ok

\* A callback threw after its first statement had changed the store
C13_Witness ==
  /\ ret.op = "transaction"
  /\ ~ret.ok
  /\ RunStatements(ret.before, <<ret.stmts[1]>>, 1, 0, now).ok
  /\ RunStatements(ret.before, <<ret.stmts[1]>>, 1, 0, now).db # ret.before

\* The one relative change of at most 20 points a text states, as a set
RelativeChange(text) ==
  {m \in text.affection :
     /\ text.affection = {m}
     /\ affectionPatterns[m.pattern].type = "delta"
     /\ m.value <= 20}

\* C14: for a stored character with affection c that the repository reads
\* as c, and a text stating one relative change of n <= 20 points whose
\* result lies within [0,100], extraction yields delta = +n (increase) or -n
\* (decrease) and newValue = c + delta, and after processMessage the stored
\* affection is newValue.
C14_RelativeChangeApplied ==
  ret.op = "processMessage" =>
    LET stored == GetById(ret.before, "characters", ret.id)
        extracted == ret.result.extracted.affection
    IN \A m \in RelativeChange(ret.text) :
         \A delta \in {IF m.pattern \in {2, 6, 8} THEN -m.value ELSE m.value} :
           ( /\ stored # NoRow
             /\ ret.read # NoRow
             /\ ret.read.affection = stored.affection
             /\ InRange(stored.affection + delta) )
           => /\ extracted # NoRow
              /\ extracted.delta = delta
              /\ extracted.newValue = stored.affection + delta
              /\ GetById(db, "characters", ret.id) # NoRow
              /\ GetById(db, "characters", ret.id).affection = stored.affection + delta

\* A decrease of 10 points was applied to a character stored with affection 50
C14_Witness ==
  /\ ret.op = "processMessage"
  /\ ret.text.affection = {Affection(2, 10)}
  /\ GetById(ret.before, "characters", "c1") # NoRow
  /\ GetById(ret.before, "characters", "c1").affection = 50
  /\ GetById(db, "characters", "c1") # NoRow
  /\ GetById(db, "characters", "c1").affection = 40

----------------------------------------------------------------------------
(* Claims about the categories of processMessage *)

\* The rows of the table that the store did not hold before the step
NewRows(table) ==
  SelectSeq(db[table], LAMBDA r : GetById(ret.before, table, r.id) = NoRow)

\* C15: when processMessage (autoApply on, dryRun off) handles a location
\* name that no Location row carries, for a stored character, it creates
\* exactly one Location with that name and type 'unknown' and sets the
\* character's current_location to the new id, wherever the character was.
C15_UnknownLocationCreatedAndEntered ==
  ( /\ ret.op = "step"
    /\ ret.type = "location"
    /\ ~ret.dryRun
    /\ options.autoApply
    /\ GetById(ret.before, "characters", ret.characterId) # NoRow
    /\ GetLocationByName(ret.before, ret.data.location) = NoRow )
  => /\ Len(NewRows("locations")) = 1
     /\ NewRows("locations")[1].name = ret.data.location
     /\ NewRows("locations")[1].type = "unknown"
     /\ GetById(db, "characters", ret.characterId).current_location
          = NewRows("locations")[1].id

\* C16: an extracted 'add' change (item name m, quantity q) that passes
\* validation, handled with autoApply on and dryRun off for a stored
\* character, adds exactly one inventory row, owned by the character, with
\* item_name m and quantity q.
C16_AddChangeAddsOneRow ==
  ( /\ ret.op = "step"
    /\ ret.type = "inventory"
    /\ ret.data.action = "add"
    /\ ret.passed
    /\ ~ret.dryRun
    /\ options.autoApply
    /\ GetById(ret.before, "characters", ret.characterId) # NoRow )
  => /\ Len(NewRows("inventory")) = 1
     /\ Len(db.inventory) = Len(ret.before.inventory) + 1
     /\ NewRows("inventory")[1].character_id = ret.characterId
     /\ NewRows("inventory")[1].item_name = ret.data.item_name
     /\ NewRows("inventory")[1].quantity = ret.data.quantity

----------------------------------------------------------------------------
(* Claims about the extractors *)

\* The text without the failures
Sound(text) == [text EXCEPT !.raises = {}]

\* C17: a failure inside an extractor does not leave it: the extractor
\* returns null (affection, emotion, location) or a list (inventory,
\* events), extractAllStates returns what the other extractors find in the
\* text, and processMessage handles every category that was extracted and
\* returns.
C17_ExtractionFailureContained ==
  ( /\ ret.op = "processMessage"
    /\ ret.text.raises # {} )
  => LET extracted == ret.result.extracted
         raises == ret.text.raises
     IN /\ ~ret.threw
        /\ "affection" \in raises => extracted.affection = NoRow
        /\ extracted.emotion = IF "emotion" \in raises THEN NoRow
                               ELSE extractEmotion(Sound(ret.text))
        /\ extracted.location = IF "location" \in raises THEN NoRow
                                ELSE extractLocationChange(Sound(ret.text))
        /\ extracted.inventory = IF "inventory" \in raises THEN <<>>
                                 ELSE extractInventoryChanges(ret.characterId,
                                                              Sound(ret.text))
        /\ extracted.events = IF "events" \in raises THEN <<>>
                              ELSE extractEvents(Sound(ret.text), now)
        /\ Len(ret.log) = Len(Work(extracted))

\* The lookup of the character raised in extractAffectionChange and the
\* call went on to apply the emotion and the item found in the text
C17_Witness ==
  /\ ret.op = "processMessage"
  /\ "affection" \in ret.text.raises
  /\ ~ret.threw
  /\ ret.result.extracted.affection = NoRow
  /\ \E i \in 1..Len(ret.log) : ret.log[i].type = "emotion" /\ ret.log[i].applied
  /\ \E i \in 1..Len(ret.log) : ret.log[i].type = "inventory" /\ ret.log[i].applied

\* C18: extractAffectionChange returns a change only for a character the
\* store holds and a text that an affection pattern matches; when the
\* character does not exist or no pattern matches it returns null, whatever
\* the stored state is.
C18_AffectionNeedsCharacterAndPhrase ==
  ( /\ ret.op = "processMessage"
    /\ \/ GetById(ret.before, "characters", ret.id) = NoRow
       \/ ret.text.affection = {} )
  => ret.result.extracted.affection = NoRow

\* A text with an affection phrase was handled for a character that had been
\* deleted, and extraction returned null
C18_Witness ==
  /\ ret.op = "processMessage"
  /\ ret.text.affection # {}
  /\ GetById(ret.before, "characters", ret.id) = NoRow
  /\ ret.result.extracted.affection = NoRow

----------------------------------------------------------------------------
(* Claims about calls in flight together *)

\* The calls in flight that have applied an affection change
AppliedAffection ==
  {i \in 1..Len(calls) :
     \E k \in 1..Len(calls[i].log) :
       calls[i].log[k].type = "affection" /\ calls[i].log[k].applied}

----------------------------------------------------------------------------
(* Claims about the options *)

\* The options with the other value of strictMode
OtherMode == [options EXCEPT !.strictMode = ~@]

\* What a call beginning in this state does up to its first await, under opts
FirstStep(opts, characterId, text, dryRun) ==
  LET extracted == extractAllStates(World, characterId, text, now)
      call == NewCall(characterId, text, dryRun, extracted.value)
  IN IF Len(Work(extracted.value)) > 0
     THEN [extracted |-> extracted.value,
           out |-> Process(extracted.w, opts, call, Work(extracted.value)[1], now)]
     ELSE [extracted |-> extracted.value, out |-> extracted.w]

----------------------------------------------------------------------------
(* Claims about the validator, its rules and the extractor *)

\* C21: validation and extraction do not change the store:
\* validateCharacterUpdate, validateTimelineEvent, validateInventoryItem,
\* validateWithRules and extractAllStates (which runs every extract*
\* operation) leave every table as it was, whatever they return.
C21_ValidationAndExtractionReadOnly ==
  ret.op \in {"validateCharacterUpdate", "validateTimelineEvent",
              "validateInventoryItem", "validateWithRules", "extractAllStates"}
  => db = ret.before

\* An extraction that found an affection change for a stored character, and
\* so read the character and filled the cache, left the tables alone
C21_Witness ==
  /\ ret.op = "extractAllStates"
  /\ ret.value.affection # NoRow
  /\ Len(ret.value.inventory) = 2
  /\ Len(cache.characters) > 0
  /\ db = ret.before

----------------------------------------------------------------------------
(* Claims about processMessage for an unknown character *)

\* C22: processMessage for a characterId with no Character row does not
\* throw, returns a result whose extracted.affection is null, and none of
\* its steps creates or changes a Character, InventoryItem or Memory row.
C22_UnknownCharacterHarmless ==
  /\ ( /\ ret.op \in {"step", "extract"}
       /\ ret.characterId = NoSuchChar
       /\ GetById(ret.before, "characters", NoSuchChar) = NoRow )
     => /\ ret.op = "step" => ~ret.threw /\ ret.type # "affection"
        /\ db.characters = ret.before.characters
        /\ db.inventory = ret.before.inventory
        /\ db.memories = ret.before.memories
  /\ ( /\ ret.op = "processMessage"
       /\ ret.characterId = NoSuchChar
       /\ GetById(ret.before, "characters", NoSuchChar) = NoRow )
     => /\ ~ret.threw
        /\ ret.result.extracted.affection = NoRow

\* A message adding an item for the unknown character returned after the
\* store refused the row
C22_Witness ==
  /\ ret.op = "processMessage"
  /\ ret.characterId = NoSuchChar
  /\ ~ret.dryRun
  /\ ~ret.threw
  /\ \E k \in 1..Len(ret.log) : ret.log[k].type = "inventory" /\ ret.log[k].caught
  /\ ret.result.extracted.affection = NoRow

----------------------------------------------------------------------------
(* Claims about the stored emotion *)

\* C23: every stored Character row has an emotion among the ten fixed
\* values, also after createCharacter or updateCharacterState was called
\* directly with an arbitrary emotion.
C23_StoredEmotionAmongTheTen ==
  \A i \in 1..Len(db.characters) : db.characters[i].emotion \in Emotions

----------------------------------------------------------------------------
(* Claims about the cache *)

\* The entry a read found in its bucket, and whether it was still fresh
Bucket == IF ret.op = "getCharacterState" THEN "characters" ELSE "locations"

Held == MapHas(ret.was[Bucket], ret.id)

Fresh == Held /\ ret.at - MapGet(ret.was[Bucket], ret.id).timestamp < cacheTTL

\* What the store holds for the id the read asked for, as the read returns it
Stored ==
  IF ret.op = "getCharacterState" THEN GetById(ret.before, "characters", ret.id)
  ELSE IF GetById(ret.before, "locations", ret.id) = NoRow THEN NoRow
  ELSE parsedLocation(GetById(ret.before, "locations", ret.id))

\* C24: a cached character or location entry is served only while
\* now - insertedAt < TTL, and then the cache stays as it is; a read that
\* finds an entry of age >= TTL returns the store's row and leaves an entry
\* for the id that holds that row and is stamped with the time of the read.
C24_EntryServedOnlyWithinTTL ==
  ret.op \in {"getCharacterState", "getLocation"} =>
    /\ Fresh => /\ ret.value = MapGet(ret.was[Bucket], ret.id).data
               /\ cache = ret.was
    /\ (Held /\ ~Fresh) =>
         /\ ret.value = Stored
         /\ MapHas(cache[Bucket], ret.id)
         /\ MapGet(cache[Bucket], ret.id).data = Stored
         /\ MapGet(cache[Bucket], ret.id).timestamp = ret.at

\* A character entry and a location entry that had reached the TTL were
\* read again
C24_Witness ==
  /\ ret.op = "getLocation"
  /\ Held /\ ~Fresh
  /\ ret.value # NoRow
  /\ \E i \in 1..Len(cache.characters) :
       /\ cache.characters[i].timestamp = now
       /\ now > 1
  /\ MapGet(cache.locations, ret.id).timestamp = ret.at

\* C25: after every operation each cache bucket (characters, locations,
\* inventory) holds at most cacheSize entries.
C25_BucketsWithinCacheSize ==
  \A bucket \in {"characters", "locations", "inventory"} :
    Len(cache[bucket]) <= cacheSize

\* The entries of the character bucket that a read dropped
Evicted ==
  SelectSeq(ret.was.characters,
            LAMBDA e : e.key # ret.id /\ ~MapHas(cache.characters, e.key))

\* C26: when a read inserts a character over the capacity of the bucket,
\* the entry evicted is one with the earliest insertedAt among the entries
\* the bucket held, also when an entry that had reached the TTL was
\* inserted again with a new insertedAt.
C26_EvictsEarliestInserted ==
  ( /\ ret.op = "getCharacterState"
    /\ Len(Evicted) > 0 )
  => \A i \in 1..Len(ret.was.characters) :
       Evicted[1].timestamp <= ret.was.characters[i].timestamp

----------------------------------------------------------------------------
(* Claims about removing an inventory item *)

\* The rows of the character, in getInventory's order, whose item_name
\* contains the extracted name or is contained in it
Matching ==
  SelectSeq(getInventory([db |-> ret.before], ret.characterId),
            LAMBDA i : \/ Includes(i.item_name, ret.data.item_name)
                       \/ Includes(ret.data.item_name, i.item_name))

\* C27: an extracted 'remove' that passes validation (autoApply on, dryRun
\* off) deletes exactly the first row of the character, in getInventory's
\* order, whose item_name contains or is contained in the extracted name,
\* whatever its quantity; with no such row nothing is deleted and no update
\* is recorded; the rows of other characters stay.
C27_RemoveDeletesFirstMatch ==
  ( /\ ret.op = "step"
    /\ ret.type = "inventory"
    /\ ret.data.action = "remove"
    /\ ret.passed
    /\ ~ret.dryRun
    /\ options.autoApply )
  => /\ \A table \in Tables \ {"inventory"} : db[table] = ret.before[table]
     /\ NotOwnedBy(db.inventory, ret.characterId)
          = NotOwnedBy(ret.before.inventory, ret.characterId)
     /\ IF Len(Matching) > 0
        THEN /\ ret.applied
             /\ db.inventory =
                  SelectSeq(ret.before.inventory, LAMBDA r : r.id # Matching[1].id)
             /\ Len(db.inventory) = Len(ret.before.inventory) - 1
        ELSE /\ ~ret.applied
             /\ db.inventory = ret.before.inventory

\* "sword" was removed from a character owning two "iron sword" and one
\* "sword" while another character owned a "sword": the "iron sword" row went
C27_Witness ==
  /\ ret.op = "step"
  /\ ret.type = "inventory"
  /\ ret.data.action = "remove"
  /\ ret.applied
  /\ Len(Matching) = 2
  /\ Matching[1].quantity = 2
  /\ GetById(db, "inventory", "i1") = NoRow
  /\ GetById(db, "inventory", "i2") # NoRow
  /\ GetById(db, "inventory", "i0") # NoRow

----------------------------------------------------------------------------
(* Claims about the rule engine *)

\* The registered rules whose type is the one asked for, or 'general'
Matches(rule) == rule.type = ret.type \/ rule.type = GENERAL

\* What the rule returns for the data of the call; the call of a rule is
\* abandoned when the rule throws or when its result cannot be read
Answer(rule) == Call(rule, ret.data)

Abandoned(rule) ==
  Answer(rule).threw \/ (~Answer(rule).passed /\ "errors" \notin DOMAIN Answer(rule))

Contains(list, entry) == \E k \in 1..Len(list) : list[k] = entry

\* C28: validateWithRules(data, type) runs the registered rules whose type
\* is type or 'general', and only those; a rule that throws is skipped and
\* the rules after it still run: every error of a matching rule that
\* reported a failure and every warning of a matching rule is in the result,
\* and the result holds nothing else.
C28_MatchingRulesRunThrowingSkipped ==
  ret.op = "validateWithRules" =>
    /\ \A i \in 1..Len(rules) :
         (Matches(rules[i]) /\ ~Abandoned(rules[i])) =>
           /\ ~Answer(rules[i]).passed =>
                \A k \in 1..Len(Answer(rules[i]).errors) :
                  Contains(ret.value.errors, Answer(rules[i]).errors[k])
           /\ "warnings" \in DOMAIN Answer(rules[i]) =>
                \A k \in 1..Len(Answer(rules[i]).warnings) :
                  Contains(ret.value.warnings, Answer(rules[i]).warnings[k])
    /\ \A k \in 1..Len(ret.value.errors) :
         \E i \in 1..Len(rules) :
           /\ Matches(rules[i]) /\ ~Abandoned(rules[i]) /\ ~Answer(rules[i]).passed
           /\ Contains(Answer(rules[i]).errors, ret.value.errors[k])
    /\ \A k \in 1..Len(ret.value.warnings) :
         \E i \in 1..Len(rules) :
           /\ Matches(rules[i]) /\ ~Abandoned(rules[i])
           /\ "warnings" \in DOMAIN Answer(rules[i])
           /\ Contains(Answer(rules[i]).warnings, ret.value.warnings[k])

\* An inventory validation of data with a negative affection: the character
\* rule did not run, a general rule threw, and the inventory rule registered
\* after it reported its error
C28_Witness ==
  /\ ret.op = "validateWithRules"
  /\ ret.type = "inventory"
  /\ ret.data = [affection |-> -10]
  /\ Len(rules) = 4
  /\ rules[3].type = GENERAL /\ rules[3].validator = "throws"
  /\ rules[4].type = "inventory" /\ rules[4].validator = "fails"
  /\ ret.value.errors = <<Entry(rules[4].name, ERROR)>>
  /\ ~ret.value.passed

\* C29: validateWithRules fails closed: passed is true exactly when every
\* executed rule that did not throw reported passed = true, whatever error
\* list a failing rule supplied.
C29_FailClosed ==
  ret.op = "validateWithRules" =>
    ( ret.value.passed <=>
        \A i \in 1..Len(rules) :
          (Matches(rules[i]) /\ ~Answer(rules[i]).threw) => Answer(rules[i]).passed )

----------------------------------------------------------------------------
(* Claims about moving to a location that does not exist *)

\* C30: for a stored character and a target id that no Location row
\* carries, validateCharacterUpdate(id, {current_location: target}) returns
\* passed = false with an ERROR on field current_location, whatever the
\* character's current location is, none included.
C30_UnknownTargetRejected ==
  ( /\ ret.op = "validateCharacterUpdate"
    /\ GetById(db, "characters", ret.characterId) # NoRow
    /\ "current_location" \in DOMAIN ret.updates
    /\ GetById(db, "locations", ret.updates.current_location) = NoRow )
  => /\ ~ret.value.passed
     /\ \E k \in 1..Len(ret.value.errors) :
          ret.value.errors[k] = Entry("current_location", ERROR)

----------------------------------------------------------------------------
(* Claims about reachability *)

\* The ids a location row lists in connected_to; an unset column lists none
ConnectedTo(location) ==
  IF location.connected_to = NullJson THEN <<>> ELSE JSONparse(location.connected_to)

\* C31: for a character with a current location and an existing target
\* Location different from it, validateCharacterUpdate emits a WARNING on
\* current_location exactly when the target is absent from the connected_to
\* list of the current location, an unset list counting as empty, and it
\* reports no ERROR on current_location.
C31_WarningIffNotConnected ==
  ( /\ ret.op = "validateCharacterUpdate"
    /\ GetById(db, "characters", ret.characterId) # NoRow
    /\ "current_location" \in DOMAIN ret.updates
    /\ GetById(db, "characters", ret.characterId).current_location # NULL
    /\ GetById(db, "locations", ret.updates.current_location) # NoRow
    /\ ret.updates.current_location
         # GetById(db, "characters", ret.characterId).current_location )
  => LET here == GetById(db, "locations",
                         GetById(db, "characters", ret.characterId).current_location)
     IN /\ InSeq(Entry("current_location", WARNING), ret.value.warnings)
             <=> ~InSeq(ret.updates.current_location, ConnectedTo(here))
        /\ ~InSeq(Entry("current_location", ERROR), ret.value.errors)

----------------------------------------------------------------------------
(* Claims about validateTimelineEvent *)

\* The conditions under which the event deserves an ERROR, by field
EventFaults ==
  LET event == ret.event
  IN {f \in {"event_type", "description", "timestamp", "importance"} :
        \/ f = "event_type" /\ event.event_type = NULL
        \/ f = "description" /\ event.description = NULL
        \/ f = "timestamp" /\ "timestamp" \in DOMAIN event /\ event.timestamp < 0
        \/ f = "importance" /\ "importance" \in DOMAIN event
                           /\ (event.importance < 1 \/ event.importance > 5)}

----------------------------------------------------------------------------
(* Claims about validateInventoryItem *)

\* The rows that hold the slot against the item: equipped items of the same
\* character and item_type that are not the item itself
Conflicting ==
  SelectSeq(db.inventory,
            LAMBDA r : /\ r.character_id = ret.characterId
                       /\ r.item_type = ret.item.item_type
                       /\ r.equipped = 1
                       /\ ("id" \in DOMAIN ret.item => r.id # ret.item.id))

\* C33: validateInventoryItem for an item with equipped true and an
\* item_type among weapon, armor and accessory emits a WARNING on equipped,
\* and no ERROR, exactly when the character already has a different item of
\* that item_type equipped; an item of another type, an item that is not
\* equipped, and the equipped items of other characters never produce it.
C33_DoubleEquipWarns ==
  ret.op = "validateInventoryItem" =>
    /\ ~InSeq(Entry("equipped", ERROR), ret.value.errors)
    /\ InSeq(Entry("equipped", WARNING), ret.value.warnings)
         <=> /\ "equipped" \in DOMAIN ret.item /\ ret.item.equipped
             /\ "item_type" \in DOMAIN ret.item /\ ret.item.item_type \in slotTypes
             /\ Len(Conflicting) > 0

\* c1, wearing a sword, asked to equip an axe as a weapon and was warned
C33_Witness ==
  /\ ret.op = "validateInventoryItem"
  /\ ret.characterId = "c1"
  /\ "equipped" \in DOMAIN ret.item /\ ret.item.equipped
  /\ "item_type" \in DOMAIN ret.item /\ ret.item.item_type = "weapon"
  /\ "id" \notin DOMAIN ret.item
  /\ Len(Conflicting) = 1
  /\ ret.value.warnings = <<Entry("equipped", WARNING)>>
  /\ ret.value.errors = <<>>

----------------------------------------------------------------------------
(* Claims about the extractors *)

\* The first pattern, in the fixed order, that matches the text, with the
\* number it captured
FirstMatch ==
  CHOOSE m \in ret.text.affection :
    \A other \in ret.text.affection : m.pattern <= other.pattern

\* C34: every non-null result of extractAffectionChange has
\* newValue = currentValue + delta with currentValue the affection stored
\* when the extraction ran; the pattern applied is the first in the fixed
\* order that matches: an absolute pattern (3, 4, 9) sets newValue to the
\* number matched, a relative one adds it, negated for the decrease
\* patterns (2, 6, 8).
C34_FirstPatternDecides ==
  ( /\ ret.op = "extractAffectionChange"
    /\ ret.value # NoRow )
  => /\ GetById(ret.before, "characters", ret.id) # NoRow
     /\ ret.value.currentValue = GetById(ret.before, "characters", ret.id).affection
     /\ ret.value.newValue = ret.value.currentValue + ret.value.delta
     /\ ret.text.affection # {}
     /\ IF FirstMatch.pattern \in {3, 4, 9}
        THEN ret.value.newValue = FirstMatch.value
        ELSE ret.value.delta = IF FirstMatch.pattern \in {2, 6, 8}
                               THEN -FirstMatch.value ELSE FirstMatch.value

\* After c1 was updated to affection 20, a text matched by the decrease
\* pattern 2 and by the absolute pattern 9 gave delta -10 and newValue 10
C34_Witness ==
  /\ ret.op = "extractAffectionChange"
  /\ ret.value # NoRow
  /\ ret.text.affection = {Affection(2, 10), Affection(9, 30)}
  /\ GetById(ret.before, "characters", ret.id).affection = 20
  /\ ret.value = [delta |-> -10, newValue |-> 10, currentValue |-> 20]

\* How many of the words of the text are keywords of the category
Occurrences(category) ==
  Cardinality({k \in 1..Len(ret.text.emotion) :
                 \E i \in 1..Len(emotionKeywords) :
                   /\ emotionKeywords[i].emotion = category
                   /\ ret.text.emotion[k] \in emotionKeywords[i].keywords})

\* The place of the category in the fixed order
Place(category) == CHOOSE i \in 1..Len(emotionKeywords) : emotionKeywords[i].emotion = category

\* C35: extractEmotion returns null exactly when no emotion keyword occurs
\* in the text; otherwise it returns a category whose keyword count is
\* maximal, and among the categories with that count the one that comes
\* first in the fixed order.
C35_TopCategoryFirstInOrder ==
  ret.op = "extractEmotion" =>
    LET categories == {emotionKeywords[i].emotion : i \in 1..Len(emotionKeywords)}
    IN /\ ret.value = NoRow <=> \A c \in categories : Occurrences(c) = 0
       /\ ret.value # NoRow =>
            /\ ret.value.emotion \in categories
            /\ \A c \in categories :
                 \/ Occurrences(c) < Occurrences(ret.value.emotion)
                 \/ /\ Occurrences(c) = Occurrences(ret.value.emotion)
                    /\ Place(ret.value.emotion) <= Place(c)

\* A text where a keyword of sad comes before one keyword of excited and
\* one shared by happy and excited: excited wins with two occurrences
C35_Witness ==
  /\ ret.op = "extractEmotion"
  /\ ret.text.emotion = <<"sad", "jidong", "xingfen">>
  /\ ret.value # NoRow
  /\ ret.value.emotion = "excited"

----------------------------------------------------------------------------
(* Claims about the result of processMessage *)

\* The change the step was given is in the store (a write of the value the
\* row already held leaves the row as it was)
Performed ==
  LET character == GetById(db, "characters", ret.characterId)
  IN CASE ret.type = "affection" ->
            /\ character # NoRow
            /\ character.affection = ret.data.newValue
       [] ret.type = "emotion" ->
            /\ character # NoRow
            /\ character.emotion = ret.data.emotion
       [] ret.type = "location" ->
            /\ character # NoRow
            /\ GetLocationByName(db, ret.data.location) # NoRow
            /\ character.current_location = GetLocationByName(db, ret.data.location).id
       [] ret.type = "inventory" ->
            IF ret.data.action = "add"
            THEN /\ Len(NewRows("inventory")) = 1
                 /\ NewRows("inventory")[1].character_id = ret.characterId
                 /\ NewRows("inventory")[1].item_name = ret.data.item_name
            ELSE /\ Len(db.inventory) = Len(ret.before.inventory) - 1
                 /\ \E k \in 1..Len(ret.before.inventory) :
                      /\ ret.before.inventory[k].character_id = ret.characterId
                      /\ GetById(db, "inventory", ret.before.inventory[k].id) = NoRow
       [] ret.type = "event" ->
            /\ Len(NewRows("timeline")) = 1
            /\ NewRows("timeline")[1].event_type = ret.data.event_type

RECURSIVE Gathered(_, _)
\* The errors (or warnings) of the steps of a call, in the order of the steps
Gathered(log, field) ==
  IF Len(log) = 0 THEN <<>>
  ELSE log[1][field] \o Gathered(Tail(log), field)

\* C36: a step is recorded as applied only when its validation passed and
\* its change was really made in the store; every entry of result.updates
\* has applied = true and stands for one applied step, in order; and
\* result.errors and result.warnings hold the errors and warnings of every
\* category processed, applied or not.
C36_UpdatesAreAppliedChanges ==
  /\ (ret.op = "step" /\ ret.applied) =>
       /\ ret.passed
       /\ ~ret.dryRun
       /\ options.autoApply
       /\ Performed
  /\ (ret.op = "processMessage" /\ ~ret.threw) =>
       LET applied == SelectSeq(ret.log, LAMBDA step : step.applied)
       IN /\ Len(ret.log) = Len(Work(ret.result.extracted))
          /\ Len(ret.result.updates) = Len(applied)
          /\ \A k \in 1..Len(ret.result.updates) :
               /\ ret.result.updates[k].applied
               /\ ret.result.updates[k].type = applied[k].type
               /\ applied[k].passed
          /\ ret.result.errors = Gathered(ret.log, "errors")
          /\ ret.result.warnings = Gathered(ret.log, "warnings")

\* A message returned after one category was applied and another was
\* refused with an error or a warning
C36_Witness ==
  /\ ret.op = "processMessage"
  /\ ~ret.threw
  /\ Len(ret.result.updates) >= 1
  /\ Len(ret.log) > Len(ret.result.updates)
  /\ Len(ret.result.errors) + Len(ret.result.warnings) >= 1

----------------------------------------------------------------------------
(* Claims about the snapshot rows *)

\* The rows the table had before the operation are its first rows still
Kept(table) ==
  /\ Len(db[table]) >= Len(ret.before[table])
  /\ SubSeq(db[table], 1, Len(ret.before[table])) = ret.before[table]

\* C37: no operation of the repository modifies or deletes a snapshot row
\* (the snapshot table only grows); restoreSnapshot, succeeding or failing,
\* leaves the snapshot table and the validation log as they were; and a
\* snapshot restored after an earlier restore gives the entities it held
\* when it was taken.
C37_SnapshotsImmutable ==
  "before" \in DOMAIN ret =>
    /\ Kept("state_snapshots")
    /\ ret.op = "restoreSnapshot" =>
         /\ db.state_snapshots = ret.before.state_snapshots
         /\ db.validation_logs = ret.before.validation_logs
    /\ (Restored /\ ret.prev.op = "restoreSnapshot" /\ ret.prev.ok) =>
         \A i \in 1..Len(StateTables) :
           Entities(db[StateTables[i]]) = Entities(TakenState(ret.id)[i])

\* A snapshot taken after s0 is still stored, with the validation log, after
\* s0 was restored twice
C37_Witness ==
  /\ Restored
  /\ ret.id = "s0"
  /\ ret.prev.op = "restoreSnapshot" /\ ret.prev.ok /\ ret.prev.id = "s0"
  /\ Len(db.validation_logs) = 1
  /\ Len(db.state_snapshots) = 2

----------------------------------------------------------------------------
(* Claims about the owners of items and memories *)

\* Every row of the table belongs to a stored character
Owned(table) ==
  \A k \in 1..Len(db[table]) : db[table][k].character_id \in Ids(db.characters)

\* C38: in every reachable state every inventory row and every memory row
\* references a stored character, whatever adds, character deletions and
\* snapshot restores came before; addInventoryItem and addMemory for a
\* character that is not stored fail and leave the store as it was.
C38_ItemsAndMemoriesOwned ==
  /\ Owned("inventory")
  /\ Owned("memories")
  /\ ( /\ ret.op \in {"addInventoryItem", "addMemory"}
       /\ "c1" \notin Ids(ret.before.characters) )
     => ~ret.ok /\ db = ret.before

\* An add for c1 after c1 was deleted
C38_Witness ==
  /\ ret.op \in {"addInventoryItem", "addMemory"}
  /\ "c1" \notin Ids(ret.before.characters)
  /\ ret.prev.op = "deleteCharacter"

----------------------------------------------------------------------------
(* Claims about the locations processMessage creates and enters *)

\* C39: from characters with no location, through processMessage,
\* createSnapshot and restoreSnapshot only, every character's non-null
\* current_location is the id of a stored location.
C39_CurrentLocationStored ==
  \A k \in 1..Len(db.characters) :
    db.characters[k].current_location # NULL =>
      db.characters[k].current_location \in Ids(db.locations)

\* A restore brought back a snapshot in which a character is at a location,
\* replacing a store that differed from it
C39_Witness ==
  /\ ret.op = "restoreSnapshot" /\ ret.ok
  /\ Len(db.locations) < Len(ret.before.locations)
  /\ \E k \in 1..Len(db.characters) : db.characters[k].current_location # NULL

\* The location rows of the store that carry the name
Named(d, name) == SelectSeq(d.locations, LAMBDA r : r.name = name)

\* C40: however the calls of processMessage that name a location follow one
\* another or interleave, the store never holds two locations of one name;
\* a location step creates a row only when no row carried the name, leaves
\* the locations as they were otherwise, and never ends in an error caught
\* from the store or thrown.
C40_AutoCreationIdempotent ==
  /\ \A k \in 1..Len(db.locations) : Len(Named(db, db.locations[k].name)) = 1
  /\ (ret.op = "step" /\ ret.type = "location") =>
       /\ ~ret.caught
       /\ ~ret.threw
       /\ Len(Named(db, ret.data.location)) = 1
       /\ IF Len(Named(ret.before, ret.data.location)) = 1
          THEN db.locations = ret.before.locations
          ELSE Len(db.locations) = Len(ret.before.locations) + 1

\* The call of c2 began first and reaches the library after an await, while
\* the call of c1 that created the library is still in flight
C40_Witness ==
  /\ ret.op = "step" /\ ret.type = "location"
  /\ ret.characterId = "c2"
  /\ ret.data.location = "library"
  /\ Len(Named(ret.before, "library")) = 1
  /\ Len(calls) = 2
  /\ calls[1].characterId = "c2"
  /\ calls[2].characterId = "c1"
  /\ calls[2].result.extracted.location.location = "library"

====
